---- MODULE Spec2Model ----
(*****************************************************************************)
(* Turn orchestrator of the prot voice assistant (src/prot/pipeline.py)      *)
(* with its state machine (src/prot/state.py) and the flag-based             *)
(* cancellation of the LLM / TTS clients and the audio player.               *)
(*                                                                           *)
(* Every action is one run of a coroutine between two suspension points      *)
(* (an await that really suspends) of the single event loop.                 *)
(*                                                                           *)
(* Spec        one utterance; every await may fail.                          *)
(* SpecOverlap one utterance more, so that an invocation of an earlier turn  *)
(*             can still be suspended while the next turn runs.              *)
(* SpecQueue   one utterance answered by a response long enough to fill the  *)
(*             audio queue, in an environment without injected failures.     *)
(* SpecSM      the state machine alone, driven by its own operations.        *)
(* SpecToolIter the orchestrator against a state machine that has the        *)
(*             tool_iteration operation of the specification (state.py has   *)
(*             none), with tools enough for every iteration of the loop.     *)
(* SpecSession one utterance with the memory store configured: the tracked   *)
(*             background tasks and a shutdown that can start at any moment. *)
(* SpecTimeout two utterances with an LLM that asks for no tool; FairTimeout *)
(*             adds that a _timeout task whose sleep is over is resumed.     *)
(*                                                                           *)
(* The components, each run on its own with the orchestrator idle:           *)
(* SpecShutdown Pipeline.shutdown step by step, any step failing.            *)
(* SpecVad     a VADProcessor: is_speech, reset, drain_prebuffer.            *)
(* SpecStt     an STTClient: connect and two overlapping send_audio calls.   *)
(* SpecRecent  ContextManager.get_recent_messages over any short log.        *)
(* SpecChunker chunk_sentences under the buffer of _produce.                 *)
(* SpecMemory  a MemoryExtractor: the extractions and saves of the turns.    *)
(* SpecAudio   the path of the numbered audio chunks from on_audio_chunk to  *)
(*             STTClient.send_audio, with the log of what was sent;          *)
(*             FairAudio adds that every suspended await returns.            *)
(* SpecClients LLMClient, TTSClient and AudioPlayer called one call after    *)
(*             the other, every call able to fail.                           *)
(*                                                                           *)
(* Modelling limits, stated once:                                            *)
(*  - at most one audio-chunk coroutine is suspended inside                  *)
(*    _handle_vad_speech / _handle_barge_in at a time (h_pc); a chunk that   *)
(*    would start a second handler while one is suspended is not taken;      *)
(*  - an utterance with a transcript ends only when no earlier invocation of *)
(*    _process_response is between player.start and the join of its tasks    *)
(*    (PipelinesJoined); earlier invocations suspended elsewhere do overlap; *)
(*  - time is counted in ticks of barge_in_grace (1.5 s), read only in       *)
(*    Speaking, and only as min(now - speaking_since, barge_in_grace);       *)
(*  - the VAD is the collaborator the pipeline tests mock: a chunk enters    *)
(*    with the verdict is_speech already made;                               *)
(*  - texts and audio frames are abstracted to what the control flow         *)
(*    inspects (blank / text, kind of message, number of frames queued);     *)
(*  - the body of a _timeout task is one step: in Spec the state is Active  *)
(*    only with STT already disconnected, so its await of stt.disconnect     *)
(*    does not suspend;                                                      *)
(*  - save_session_log is modelled up to the call of save_session; the       *)
(*    write inside ConversationLogger is best effort and not modelled;       *)
(*  - conversation ids are numbered in the order uuid4() draws them;         *)
(*  - shutdown is three steps (up to its first await, the closeables, the    *)
(*    gather); the coroutines it does not cancel go on running;              *)
(*  - the memory store is configured in SpecSession only; elsewhere the      *)
(*    pipeline runs "without memory" and tracks no background task;          *)
(*  - turnTrace, biLog, toolHist, speaker, heard, silent_chunks, archive,    *)
(*    timeout_replaced, timeout_fresh, vad_reset_by and the fields barged,   *)
(*    raised, out,                                                           *)
(*    excAt, calls of an invocation are history variables: no operation      *)
(*    reads them;                                                            *)
(*  - in the component specifications a failure is an Exception (what the    *)
(*    try blocks catch); connect() of the STT client is not called while a   *)
(*    send_audio call is suspended; a text is a sequence of characters of    *)
(*    three kinds; a memory extraction runs as one step after its turn;      *)
(*  - in SpecAudio a handler (_handle_vad_speech, _handle_barge_in) is       *)
(*    entered only while no other handler is suspended, and the ring of      *)
(*    the VAD is the prebuffer of the specification (vad.py has none);       *)
(*  - in SpecClients the calls on one client do not overlap; the streams     *)
(*    of two invocations overlap in SpecOverlap.                             *)
(*****************************************************************************)
EXTENDS Integers, Sequences, FiniteSets, TLC

\* ---------------------------------------------------------------- bounds
MaxTurns == 1
MaxFrames == 1
MaxTools == 2
MaxPending == 1
MaxDrain == 1
MaxSilence == 2
MaxPrebuffer == 3
MaxVadCalls == 5
MaxSttCalls == 5
MaxLog == 3
MaxWindow == 2
MaxDelta == 2
MaxStream == 4
MaxInterval == 3
MaxMemCalls == 7
MaxChunks == 10
MaxCliCalls == 6

\* ------------------------------------------------------ program constants
barge_in_frames == 6
barge_in_grace == 1
queue_maxsize == 32
MAX_TOOL_ITERATIONS == 3
vad_threshold_normal == 5
vad_threshold_speaking == 8
speech_count_threshold == 3
MAX_BUFFER_CHARS == 2000
memory_extraction_window_turns == 3

State == {"idle", "listening", "processing", "speaking", "active", "interrupted"}

VARIABLES
    state,              \* StateMachine._state
    vad_normal,         \* StateMachine._vad_normal
    vad_speaking,       \* StateMachine._vad_speaking
    sm_last,            \* last state-machine operation applied directly (SpecSM)
    barge_in_count,     \* Pipeline._barge_in_count
    elapsed,            \* min(time.monotonic() - _speaking_since, barge_in_grace)
    current_transcript, \* Pipeline._current_transcript: "blank", "text"
    pending_audio,      \* Pipeline._pending_audio: chunks tagged "pre" / "new"
    stt_connected,      \* Pipeline._stt_connected
    timeout_pending,    \* Pipeline._active_timeout_task is scheduled, not yet fired
    ctx,                \* ContextManager._messages
    stt_conn,           \* STTClient._connection is not None
    recv_task,          \* STTClient._recv_task: "none", "idle", "callback"
    llm_cancelled,      \* LLMClient._cancelled
    llm_last,           \* LLMClient._last_response_content
    tts_cancelled,      \* TTSClient._cancelled
    player_proc,        \* AudioPlayer._process: "none", "running"
    h_pc,               \* suspension point of the chunk coroutine inside a handler
    h_i,                \* index of the flush loop over pending_audio
    pr,                 \* the _process_response invocations, one per turn
    turnsLeft,          \* utterances the environment still delivers
    framesLeft,         \* PCM frames the TTS service still delivers
    toolsLeft,          \* tool_use blocks the LLM still emits
    turnTrace,          \* history: states taken since the turn began
    biLog,              \* history: steps of the current barge-in, in order
    toolHist,           \* history: tool runs of the latest tool iteration
    speaker,            \* history: invocation that last entered Speaking
    sm_tool_iteration,  \* StateMachine has the tool_iteration operation
    heard,              \* history: the VAD has reported speech
    silent_chunks,      \* history: chunks without speech before the first
    timeout_tasks,      \* number of _timeout tasks asleep
    timeout_replaced,   \* history: a sleeping _timeout task was cancelled
    timeout_fresh,      \* history: the sleeping _timeout task was started
                        \* when Active was last entered, or later
    session_msg_offset, \* Pipeline._session_msg_offset
    conversation_id,    \* Pipeline._conversation_id, the n-th uuid4() drawn
    archive,            \* history: the save_session calls, as
                        \* [id, from, to]: messages from..to of the context
    vad_reset_by,       \* history: the last caller of VADProcessor.reset
    graphrag_on,        \* Pipeline._graphrag is not None
    memory_on,          \* Pipeline._memory is not None
    background_tasks,   \* Pipeline._background_tasks
    bg_running,         \* the background tasks that have not completed
    sd_pc,              \* where Pipeline.shutdown is
    sd_gather,          \* the tasks shutdown cancelled and gathers
    sdn,                \* component run: Pipeline.shutdown, step by step
    vadp,               \* component run: a VADProcessor
    sttc,               \* component run: an STTClient
    recent,             \* component run: ContextManager.get_recent_messages
    chunker,            \* component run: chunk_sentences under _produce
    mem,                \* component run: a MemoryExtractor
    aud,                \* component run: the audio path to the STT session
    cli                 \* component run: LLMClient, TTSClient, AudioPlayer

vars == << state, vad_normal, vad_speaking, sm_last,
           barge_in_count, elapsed, current_transcript, pending_audio,
           stt_connected, timeout_pending, ctx, stt_conn, recv_task,
           llm_cancelled, llm_last, tts_cancelled, player_proc, h_pc, h_i,
           pr, turnsLeft, framesLeft, toolsLeft, turnTrace, biLog,
           toolHist, speaker, sm_tool_iteration, heard, silent_chunks,
           timeout_tasks, timeout_replaced, timeout_fresh,
           session_msg_offset,
           conversation_id, archive, vad_reset_by, graphrag_on, memory_on,
           background_tasks, bg_running, sd_pc, sd_gather,
           sdn, vadp, sttc, recent, chunker, mem, aud, cli >>

\* the components run on their own, outside the orchestrator
unitVars == << sdn, vadp, sttc, recent, chunker, mem, aud, cli >>

\* what no operation of the orchestrator changes
cfgVars == << sm_tool_iteration, graphrag_on, memory_on, unitVars >>

\* history of the microphone
micVars == << heard, silent_chunks >>

\* the _timeout tasks
timerVars == << timeout_tasks, timeout_replaced, timeout_fresh >>

\* the session archive
sessVars == << session_msg_offset, conversation_id, archive >>

\* the tracked fire-and-forget tasks
bgVars == << background_tasks, bg_running >>

\* Pipeline.shutdown
sdVars == << sd_pc, sd_gather >>

envVars == << cfgVars, micVars, timerVars, sessVars, vad_reset_by, bgVars,
             sdVars >>

\* ------------------------------------------------------------ state.py
VALID_TRANSITIONS ==
    [s \in State |->
        CASE s = "idle"        -> {"listening"}
          [] s = "listening"   -> {"processing"}
          [] s = "processing"  -> {"speaking"}
          [] s = "speaking"    -> {"active", "interrupted"}
          [] s = "active"      -> {"idle", "listening"}
          [] s = "interrupted" -> {"listening"}]

\* Result of a state-machine operation: the new state, whether it raised,
\* and the value it returned (only try_on_tts_complete returns one).
Res(st, raised, ret) == [st |-> st, raised |-> raised, ret |-> ret]

_transition(s, to) ==
    IF to \in VALID_TRANSITIONS[s] THEN Res(to, FALSE, FALSE)
                                   ELSE Res(s, TRUE, FALSE)

on_speech_detected(s) ==
    IF s \in {"idle", "active"} THEN _transition(s, "listening")
    ELSE IF s = "speaking" THEN _transition(s, "interrupted")
    ELSE Res(s, TRUE, FALSE)

on_utterance_complete(s) == _transition(s, "processing")

on_tts_started(s) == _transition(s, "speaking")

on_tts_complete(s) == _transition(s, "active")

\* variant: the "try" form goes through _transition like the strict form
try_on_tts_complete_Strict(s) ==
    LET r == _transition(s, "active") IN Res(r.st, r.raised, ~r.raised)

try_on_tts_complete(s) ==
    IF s = "speaking" THEN Res("active", FALSE, TRUE) ELSE Res(s, FALSE, FALSE)

on_active_timeout(s) == _transition(s, "idle")

on_interrupt_handled(s) == _transition(s, "listening")

\* the tool_iteration operation of section 4.4: Speaking -> Processing
tool_iteration(s) ==
    IF s = "speaking" THEN Res("processing", FALSE, FALSE)
                      ELSE Res(s, TRUE, FALSE)

\* StateMachine defines no on_tool_iteration: the call at pipeline.py:362
\* raises AttributeError (an Exception) and leaves the state alone.  Only
\* SpecToolIter runs the orchestrator against a state machine that has it.
on_tool_iteration(s) ==
    IF sm_tool_iteration THEN tool_iteration(s) ELSE Res(s, TRUE, FALSE)

vad_threshold(s) == IF s = "speaking" THEN vad_speaking ELSE vad_normal

SmOps == {"on_speech_detected", "on_utterance_complete", "on_tts_started",
          "on_tts_complete", "try_on_tts_complete", "on_active_timeout",
          "on_interrupt_handled", "on_tool_iteration"}

SmApply(op, s) ==
    CASE op = "on_speech_detected"    -> on_speech_detected(s)
      [] op = "on_utterance_complete" -> on_utterance_complete(s)
      [] op = "on_tts_started"        -> on_tts_started(s)
      [] op = "on_tts_complete"       -> on_tts_complete(s)
      [] op = "try_on_tts_complete"   -> try_on_tts_complete(s)
      [] op = "on_active_timeout"     -> on_active_timeout(s)
      [] op = "on_interrupt_handled"  -> on_interrupt_handled(s)
      [] op = "on_tool_iteration"     -> on_tool_iteration(s)

\* ------------------------------------------- one _process_response call
NoneContent == -1

NoPR == [pc |-> "none", it |-> 0, prod |-> "none", cons |-> "none",
         qlen |-> 0, qsent |-> FALSE, buf |-> FALSE,
         pexc |-> FALSE, first |-> TRUE, nblocks |-> 0, k |-> 0,
         results |-> <<>>, raised |-> <<>>, asstAt |-> 0, barged |-> FALSE,
         excAt |-> "none", tools |-> TRUE, calls |-> <<>>,
         out |-> "none"]

\* The locals of a coroutine that has returned are gone, and so are the
\* queue and the two tasks once the join has returned.
Norm(p) ==
    IF p.pc = "done"
    THEN [NoPR EXCEPT !.pc = "done", !.out = p.out, !.excAt = p.excAt,
                      !.calls = p.calls]
    ELSE IF p.pc \in {"finish", "tool", "exc_kill"}
    THEN [p EXCEPT !.prod = "none", !.cons = "none", !.qlen = 0,
                   !.qsent = FALSE, !.buf = FALSE, !.pexc = FALSE,
                   !.first = TRUE, !.tools = TRUE]
    ELSE p

NoTools == [n |-> 0, raised |-> <<>>, results |-> <<>>]

\* one slot per utterance of the longest run considered
PRs == 1 .. (MaxTurns + 1)

NoSm == [op |-> "none", from |-> "idle", raised |-> FALSE, ret |-> FALSE,
         thr |-> 0]

\* what startup found: a state machine with tool_iteration or the one of
\* state.py, the memory store reachable or "running without memory"
\* a component that is not run on its own
UnitOff == [pc |-> "off"]

UnitsExcept(unit) ==
    /\ unit # "sdn" => sdn = UnitOff
    /\ unit # "vadp" => vadp = UnitOff
    /\ unit # "sttc" => sttc = UnitOff
    /\ unit # "recent" => recent = UnitOff
    /\ unit # "chunker" => chunker = UnitOff
    /\ unit # "mem" => mem = UnitOff
    /\ unit # "aud" => aud = UnitOff
    /\ unit # "cli" => cli = UnitOff

Configured(tool_iter, store) ==
    /\ sm_tool_iteration = tool_iter
    /\ graphrag_on = store
    /\ memory_on = store
    /\ UnitsExcept("none")

InitWith(turns, frames, tools, vn, vs, el) ==
    /\ state = "idle"
    /\ vad_normal = vn
    /\ vad_speaking = vs
    /\ sm_last = NoSm
    /\ barge_in_count = 0
    /\ elapsed = el
    /\ current_transcript = "blank"
    /\ pending_audio = <<>>
    /\ stt_connected = FALSE
    /\ timeout_pending = FALSE
    /\ ctx = <<>>
    /\ stt_conn = FALSE
    /\ recv_task = "none"
    /\ llm_cancelled = FALSE
    /\ llm_last = NoneContent
    /\ tts_cancelled = FALSE
    /\ player_proc = "none"
    /\ h_pc = "none"
    /\ h_i = 0
    /\ pr = [i \in PRs |-> NoPR]
    /\ turnsLeft = turns
    /\ framesLeft = frames
    /\ toolsLeft = tools
    /\ turnTrace = <<"idle">>
    /\ biLog = <<>>
    /\ toolHist = NoTools
    /\ speaker = 0
    /\ heard = FALSE
    /\ silent_chunks = 0
    /\ timeout_tasks = 0
    /\ timeout_replaced = FALSE
    /\ timeout_fresh = FALSE
    /\ session_msg_offset = 0
    /\ conversation_id = 1
    /\ archive = <<>>
    /\ vad_reset_by = "none"
    /\ background_tasks = {}
    /\ bg_running = {}
    /\ sd_pc = "none"
    /\ sd_gather = {}

\* --------------------------------------------- the state machine alone
\* StateMachine.__init__ with any pair of thresholds, then any operation
\* in any state the machine can be in.
SmThresholds == {4, 5, 6} \X {7, 8, 9}

InitSM ==
    /\ \E t \in SmThresholds : InitWith(0, 0, 0, t[1], t[2], 0)
    /\ Configured(FALSE, FALSE)

coreVars == << vad_normal, vad_speaking, barge_in_count,
               elapsed, current_transcript, pending_audio, stt_connected,
               timeout_pending, ctx, stt_conn, recv_task, llm_cancelled,
               llm_last, tts_cancelled, player_proc, h_pc, h_i, pr,
               turnsLeft, framesLeft, toolsLeft, turnTrace, biLog,
               toolHist, speaker, sm_tool_iteration, heard,
               silent_chunks, timeout_tasks, timeout_replaced,
               timeout_fresh, session_msg_offset, conversation_id, archive,
               vad_reset_by, graphrag_on, memory_on, background_tasks,
               bg_running, sd_pc, sd_gather >>

pipelineVars == << coreVars, unitVars >>

SmCall(op) ==
    LET r == SmApply(op, state) IN
    /\ state' = r.st
    /\ sm_last' = [op |-> op, from |-> state, raised |-> r.raised,
                   ret |-> r.ret, thr |-> vad_threshold(r.st)]
    /\ UNCHANGED pipelineVars

NextSM == \E op \in SmOps : SmCall(op)

SpecSM == InitSM /\ [][NextSM]_vars


\* ===================================================== the orchestrator
smVars == << vad_normal, vad_speaking, sm_last >>

Last(s) == s[Len(s)]

\* history of the state machine within the turn
Went(tt, from, to) == IF from = to THEN tt ELSE Append(tt, to)

\* the branch of _async_audio_chunk that fires the barge-in
BargeInFires(is_speech) ==
    /\ is_speech
    /\ state = "speaking"
    /\ elapsed >= barge_in_grace
    /\ barge_in_count + 1 >= barge_in_frames

\* VADProcessor.drain_prebuffer: the chunks retained in the ring
Drained ==
    { IF n = 0 THEN <<>> ELSE [j \in 1 .. n |-> "pre"] : n \in 0 .. MaxDrain }

\* STTClient.disconnect cancels the receive task: an utterance-end callback
\* still suspended in its own disconnect is cancelled with it.
CancelCallback(prs) ==
    [i \in PRs |->
        IF prs[i].pc = "ue_disconnect" /\ recv_task = "callback"
        THEN [prs[i] EXCEPT !.pc = "done", !.out = "cancelled"]
        ELSE prs[i]]

\* history of the barge-in: a chunk handed to STTClient.send_audio
LogSend(log, tag) ==
    IF log = <<>> \/ ~stt_conn THEN log
    ELSE IF tag = "new" /\ Last(log) = "send_new" THEN log
    ELSE Append(log, "send_" \o tag)

Tick ==
    /\ state = "speaking"
    /\ elapsed < barge_in_grace
    /\ elapsed' = elapsed + 1
    /\ UNCHANGED << state, smVars, envVars, barge_in_count,
                    current_transcript, pending_audio, stt_connected,
                    timeout_pending, ctx, stt_conn, recv_task, llm_cancelled,
                    llm_last, tts_cancelled, player_proc, h_pc, h_i, pr,
                    turnsLeft, framesLeft, toolsLeft, turnTrace, biLog,
                    toolHist, speaker >>

\* variant: every chunk in Idle or Active counts as speech
SpeechBranch_AnyChunk(is_speech) == state \in {"idle", "active"}

\* `if is_speech: if state in (State.IDLE, State.ACTIVE)`
SpeechBranch(is_speech) == is_speech /\ state \in {"idle", "active"}

\* history: one chunk has passed through VADProcessor.is_speech
Hear(is_speech) ==
    /\ heard' = (heard \/ is_speech)
    /\ silent_chunks' = IF heard \/ is_speech THEN 0 ELSE silent_chunks + 1

\* _async_audio_chunk on the paths that call no handler
ChunkPlain(is_speech) ==
    /\ ~SpeechBranch(is_speech)
    /\ ~BargeInFires(is_speech)
    /\ ~heard /\ ~is_speech => silent_chunks < MaxSilence
    /\ Hear(is_speech)
    /\ barge_in_count' =
          IF is_speech
          THEN IF state = "speaking" /\ elapsed >= barge_in_grace
               THEN barge_in_count + 1
               ELSE barge_in_count
          ELSE 0
    /\ IF state = "listening" /\ ~stt_connected
       THEN /\ Len(pending_audio) < MaxPending
            /\ pending_audio' = Append(pending_audio, "new")
            /\ biLog' = biLog
       ELSE /\ pending_audio' = pending_audio
            /\ biLog' = IF state = "listening" THEN LogSend(biLog, "new")
                                               ELSE biLog
    /\ UNCHANGED << state, smVars, cfgVars, bgVars, sdVars, timerVars,
                    sessVars, vad_reset_by, elapsed, current_transcript,
                    stt_connected, timeout_pending, ctx, stt_conn, recv_task,
                    llm_cancelled, llm_last, tts_cancelled, player_proc, h_pc,
                    h_i, pr, turnsLeft, framesLeft, toolsLeft, turnTrace,
                    toolHist, speaker >>

\* _async_audio_chunk -> _handle_vad_speech, up to the await of stt.connect
ChunkVadSpeech(is_speech) ==
    /\ SpeechBranch(is_speech)
    /\ h_pc = "none"
    /\ Hear(is_speech)
    /\ barge_in_count' = 0
    /\ state' = on_speech_detected(state).st
    /\ current_transcript' = "blank"
    /\ stt_connected' = FALSE
    /\ \E d \in Drained : pending_audio' = d
    /\ stt_conn' = FALSE
    /\ recv_task' = "none"
    /\ pr' = CancelCallback(pr)
    /\ h_pc' = "vs_connect"
    /\ h_i' = 0
    /\ turnTrace' = << state, on_speech_detected(state).st >>
    /\ biLog' = <<>>
    /\ vad_reset_by' = "vad_speech"
    /\ UNCHANGED << smVars, cfgVars, bgVars, sdVars, timerVars, sessVars,
                    elapsed, timeout_pending, ctx, llm_cancelled, llm_last,
                    tts_cancelled, player_proc, turnsLeft, framesLeft,
                    toolsLeft, toolHist, speaker >>

\* The part of the handlers the chunk coroutine runs between suspension
\* points, as a function on the fields it touches.
HNow == [st |-> state, tt |-> turnTrace,
         tr |-> current_transcript,
         pa |-> pending_audio, sf |-> stt_connected, conn |-> stt_conn,
         rt |-> recv_task, pp |-> player_proc, prs |-> pr, log |-> biLog,
         vr |-> vad_reset_by, hpc |-> h_pc, hi |-> h_i]

HCommit(h) ==
    /\ state' = h.st
    /\ turnTrace' = h.tt
    /\ current_transcript' = h.tr
    /\ pending_audio' = h.pa
    /\ stt_connected' = h.sf
    /\ stt_conn' = h.conn
    /\ recv_task' = h.rt
    /\ player_proc' = h.pp
    /\ pr' = h.prs
    /\ biLog' = h.log
    /\ vad_reset_by' = h.vr
    /\ h_pc' = h.hpc
    /\ h_i' = h.hi

\* _handle_barge_in after the player kill: on_interrupt_handled, then up
\* to the await of stt.connect.  d is the drained ring.
BargeAfterKill(h, d) ==
    LET r == on_interrupt_handled(h.st) IN
    IF r.raised
    THEN [h EXCEPT !.pp = "none", !.hpc = "none", !.hi = 0,
                   !.log = Append(h.log, "killed")]
    ELSE [h EXCEPT !.pp = "none",
                   !.st = r.st,
                   !.tt = Went(h.tt, h.st, r.st),
                   !.sf = FALSE,
                   !.tr = "blank",
                   !.pa = d,
                   !.vr = "barge_in",
                   !.conn = FALSE,
                   !.rt = "none",
                   !.prs = CancelCallback(h.prs),
                   !.log = h.log \o << "killed", "listening" >>,
                   !.hpc = "bi_connect",
                   !.hi = 0]

\* the flush loop `for chunk in self._pending_audio: await send_audio(chunk)`
\* from index j on, then the rest of the handler and of _async_audio_chunk
FlushFrom(h, j, flushpc) ==
    IF j <= Len(h.pa) /\ h.conn
    THEN [h EXCEPT !.hpc = flushpc, !.hi = j,
                   !.log = IF h.log = <<>> THEN h.log
                           ELSE Append(h.log, "send_" \o h.pa[j])]
    ELSE [h EXCEPT !.pa = <<>>, !.sf = TRUE, !.hpc = "none", !.hi = 0]

\* variant: the handler does not test is_connected
ConnectReturned_NoFallback(h, ok) ==
    FlushFrom([h EXCEPT !.conn = ok, !.rt = IF ok THEN "idle" ELSE "none"],
              1, IF h.hpc = "vs_connect" THEN "vs_flush" ELSE "bi_flush")

\* stt.connect returned; is_connected tells whether a session is open
ConnectReturned(h, ok) ==
    LET h1 == [h EXCEPT !.conn = ok,
                        !.rt = IF ok THEN "idle" ELSE "none"] IN
    IF ~ok
    THEN [h1 EXCEPT !.st = "idle",
                    !.tt = Went(h.tt, h.st, "idle"),
                    !.pa = <<>>,
                    !.hpc = "none", !.hi = 0]
    ELSE FlushFrom([h1 EXCEPT !.log = IF h.log = <<>> THEN h.log
                                      ELSE Append(h.log, "connected")],
                   1,
                   IF h.hpc = "vs_connect" THEN "vs_flush" ELSE "bi_flush")

\* variant: the handler moves on to Listening before the kill is awaited
AwaitKill_ListenFirst(h, d) ==
    IF h.pp = "running"
    THEN [h EXCEPT !.st = on_interrupt_handled(h.st).st,
                   !.tt = Went(h.tt, h.st, on_interrupt_handled(h.st).st),
                   !.hpc = "bi_kill"]
    ELSE BargeAfterKill(h, d)

\* `await self._player.kill()` suspends only on a live process
AwaitKill(h, d) ==
    IF h.pp = "running" THEN [h EXCEPT !.hpc = "bi_kill"]
                        ELSE BargeAfterKill(h, d)

\* _async_audio_chunk -> barge-in: on_speech_detected, llm.cancel, tts.flush,
\* then the await of player.kill
ChunkBargeIn(is_speech) ==
    /\ BargeInFires(is_speech)
    /\ h_pc = "none"
    /\ Hear(is_speech)
    /\ barge_in_count' = 0
    /\ llm_cancelled' = TRUE
    /\ tts_cancelled' = TRUE
    /\ \E d \in Drained :
         LET r == on_speech_detected(state)
             h0 == [HNow EXCEPT
                      !.st = r.st,
                      !.tt = Went(turnTrace, state, r.st),
                      !.prs = [i \in PRs |->
                                 IF i = speaker /\ pr[i].pc # "done"
                                 THEN [pr[i] EXCEPT !.barged = TRUE]
                                 ELSE pr[i]],
                      !.log = << "interrupted", "llm_cancel", "tts_flush",
                                 "kill" >>]
         IN HCommit(AwaitKill(h0, d))
    /\ UNCHANGED << smVars, cfgVars, bgVars, sdVars, timerVars, sessVars,
                    elapsed, timeout_pending, ctx, llm_last, turnsLeft,
                    framesLeft, toolsLeft, toolHist, speaker >>

\* the chunk coroutine resumes inside a handler: player.kill, stt.connect
\* or one send_audio of the flush loop has returned
HandlerResume(ok) ==
    /\ h_pc # "none"
    /\ h_pc \notin {"vs_connect", "bi_connect"} => ok
    /\ \E d \in Drained :
         HCommit(CASE h_pc = "bi_kill" -> BargeAfterKill(HNow, d)
                   [] h_pc \in {"vs_connect", "bi_connect"} ->
                          ConnectReturned(HNow, ok)
                   [] h_pc \in {"vs_flush", "bi_flush"} ->
                          FlushFrom(HNow, h_i + 1, h_pc))
    /\ UNCHANGED << smVars, cfgVars, bgVars, sdVars, micVars, timerVars,
                    sessVars, barge_in_count, elapsed, timeout_pending, ctx,
                    llm_cancelled, llm_last, tts_cancelled, turnsLeft,
                    framesLeft, toolsLeft, toolHist, speaker >>


\* ------------------------------------------------------- STT callbacks
\* _on_transcript(text, is_final = True); interim results change nothing
SttTranscript(t) ==
    /\ stt_conn
    /\ recv_task = "idle"
    /\ current_transcript' =
          IF t = "text" \/ current_transcript = "text" THEN "text" ELSE "blank"
    /\ UNCHANGED << state, smVars, envVars, barge_in_count, elapsed,
                    pending_audio, stt_connected, timeout_pending, ctx,
                    stt_conn, recv_task, llm_cancelled, llm_last,
                    tts_cancelled, player_proc, h_pc, h_i, pr, turnsLeft,
                    framesLeft, toolsLeft, turnTrace, biLog, toolHist,
                    speaker >>

\* the invocation the next utterance starts
NextPR == CHOOSE i \in PRs : /\ pr[i].pc = "none"
                            /\ \A j \in 1 .. (i - 1) : pr[j].pc # "none"

\* the invocation the last utterance started
LatestPR == IF pr[1].pc = "none" THEN 1
            ELSE CHOOSE i \in PRs : /\ pr[i].pc # "none"
                                    /\ \A j \in PRs : j > i => pr[j].pc = "none"

\* no invocation is between player.start and the join of its two tasks
PipelinesJoined == \A i \in PRs : pr[i].pc \notin {"start", "wait"}

\* variant: the utterance end is handled whatever the transcript holds
SttUtteranceEnd_Always ==
    /\ stt_conn
    /\ recv_task = "idle"
    /\ turnsLeft > 0
    /\ PipelinesJoined
    /\ LET r == on_utterance_complete(state) IN
       IF r.raised
       THEN /\ recv_task' = "none"
            /\ UNCHANGED << state, stt_connected, pending_audio, pr,
                            turnsLeft, turnTrace, biLog, toolHist >>
       ELSE /\ state' = r.st
            /\ turnTrace' = Went(turnTrace, state, r.st)
            /\ stt_connected' = FALSE
            /\ pending_audio' = <<>>
            /\ recv_task' = "callback"
            /\ pr' = [pr EXCEPT ![NextPR] = [NoPR EXCEPT !.pc = "ue_disconnect"]]
            /\ turnsLeft' = turnsLeft - 1
            /\ biLog' = IF h_pc = "none" THEN <<>> ELSE biLog
            /\ toolHist' = NoTools
    /\ UNCHANGED << smVars, envVars, barge_in_count, elapsed,
                    current_transcript, timeout_pending, ctx, stt_conn,
                    llm_cancelled, llm_last, tts_cancelled, player_proc, h_pc,
                    h_i, framesLeft, toolsLeft, speaker >>

\* _handle_utterance_end up to the await of stt.disconnect
SttUtteranceEnd ==
    /\ stt_conn
    /\ recv_task = "idle"
    /\ turnsLeft > 0
    /\ current_transcript = "text" => PipelinesJoined
    /\ LET r == on_utterance_complete(state) IN
       IF current_transcript # "text"
       THEN UNCHANGED << state, stt_connected, pending_audio, pr, recv_task,
                         turnsLeft, turnTrace, biLog, toolHist >>
       ELSE IF r.raised
       THEN /\ recv_task' = "none"
            /\ UNCHANGED << state, stt_connected, pending_audio, pr,
                            turnsLeft, turnTrace, biLog, toolHist >>
       ELSE /\ state' = r.st
            /\ turnTrace' = Went(turnTrace, state, r.st)
            /\ stt_connected' = FALSE
            /\ pending_audio' = <<>>
            /\ recv_task' = "callback"
            /\ pr' = [pr EXCEPT ![NextPR] = [NoPR EXCEPT !.pc = "ue_disconnect"]]
            /\ turnsLeft' = turnsLeft - 1
            /\ biLog' = IF h_pc = "none" THEN <<>> ELSE biLog
            /\ toolHist' = NoTools
    /\ UNCHANGED << smVars, envVars, barge_in_count, elapsed,
                    current_transcript, timeout_pending, ctx, stt_conn,
                    llm_cancelled, llm_last, tts_cancelled, player_proc, h_pc,
                    h_i, framesLeft, toolsLeft, speaker >>

\* ---------------------------------------------------- _process_response
Msg(role, kind) == [role |-> role, kind |-> kind]

PNow(i) == [st |-> state, tt |-> turnTrace, th |-> toolHist, ctx |-> ctx,
            tp |-> timeout_pending, tn |-> timeout_tasks,
            trp |-> timeout_replaced, ts |-> FALSE,
            pp |-> player_proc, sp |-> speaker,
            bgs |-> background_tasks, run |-> bg_running,
            p |-> pr[i]]

PCommit(i, s) ==
    /\ state' = s.st
    /\ turnTrace' = s.tt
    /\ toolHist' = s.th
    /\ ctx' = s.ctx
    /\ timeout_pending' = s.tp
    /\ timeout_tasks' = s.tn
    /\ timeout_replaced' = s.trp
    /\ timeout_fresh' = IF s.ts THEN TRUE
                        ELSE IF s.st = "active" /\ state # "active" THEN FALSE
                        ELSE timeout_fresh /\ s.tn > 0
    /\ background_tasks' = s.bgs
    /\ bg_running' = s.run
    /\ player_proc' = s.pp
    /\ speaker' = s.sp
    /\ pr' = [pr EXCEPT ![i] = Norm(s.p)]

\* asyncio.create_task, _background_tasks.add(task) and the done callback
\* that discards it; the task is named after its kind and the message
Track(s, kind) ==
    LET t == << kind, Len(s.ctx) >> IN
    [s EXCEPT !.bgs = @ \cup {t}, !.run = @ \cup {t}]

\* _save_message_bg: `if not self._graphrag: return`
SaveMessageBg(s) == IF graphrag_on THEN Track(s, "save") ELSE s

\* _extract_memories_bg: `if not self._memory: return`
ExtractMemoriesBg(s) == IF memory_on THEN Track(s, "extract") ELSE s

\* variant: the new _timeout task is created without cancelling the old
StartActiveTimeout_NoCancel(s) ==
    [s EXCEPT !.tp = TRUE, !.tn = s.tn + 1, !.ts = TRUE]

\* variant: a _timeout task that is still asleep is kept
StartActiveTimeout_KeepOld(s) ==
    IF s.tn > 0 THEN s
    ELSE [s EXCEPT !.tp = TRUE, !.tn = 1, !.ts = TRUE]

\* _start_active_timeout: cancel the task scheduled before, create a new one
StartActiveTimeout(s) ==
    [s EXCEPT !.tp = TRUE, !.tn = 1, !.trp = s.trp \/ s.tn > 0,
              !.ts = TRUE]

\* variant: the recovery forces Active and schedules no active-timeout
Recover_NoTimeout(s) ==
    LET s1 == [s EXCEPT !.p.pc = "done", !.p.out = "recovered",
                        !.pp = "none"] IN
    IF s.st \in {"processing", "speaking"}
    THEN [s1 EXCEPT !.st = "active", !.tt = Went(s.tt, s.st, "active")]
    ELSE s1

\* variant: the recovery forces Active whatever the state is
Recover_AnyState(s) ==
    StartActiveTimeout(
        [s EXCEPT !.p.pc = "done", !.p.out = "recovered", !.pp = "none",
                  !.st = "active", !.tt = Went(s.tt, s.st, "active")])

\* the except clause after player.kill: reset_turn, then the state-aware
\* recovery that forces Active from Processing or Speaking
Recover(s) ==
    LET s1 == [s EXCEPT !.p.pc = "done", !.p.out = "recovered",
                        !.pp = "none"] IN
    IF s.st \in {"processing", "speaking"}
    THEN StartActiveTimeout(
             [s1 EXCEPT !.st = "active", !.tt = Went(s.tt, s.st, "active")])
    ELSE s1

\* the except clause: player.kill suspends only on a live process
ExcHandler(s) ==
    LET s1 == [s EXCEPT !.p.excAt = s.st] IN
    IF s.pp = "running" THEN [s1 EXCEPT !.p.pc = "exc_kill"]
                        ELSE Recover(s1)

\* `iter_tools = tools if iteration < _MAX_TOOL_ITERATIONS - 1 else None`:
\* TRUE when the LLM call of the iteration is given the tools list
IterTools(it) == it < MAX_TOOL_ITERATIONS - 1

\* head of one iteration of the tool loop, up to the await of player.start
StartIteration(s, it, i) ==
    IF s.st # "processing"
    THEN [s EXCEPT !.p.pc = "done", !.p.out = "bailed"]
    ELSE LET r == on_tts_started(s.st) IN
         [s EXCEPT !.st = r.st,
                   !.tt = Went(s.tt, s.st, r.st),
                   !.sp = i,
                   !.p = [@ EXCEPT !.pc = "start", !.it = it,
                                   !.prod = "none", !.cons = "none",
                                   !.qlen = 0, !.qsent = FALSE,
                                   !.buf = FALSE,
                                   !.pexc = FALSE, !.first = TRUE,
                                   !.tools = IterTools(it),
                                   !.barged = FALSE]]

\* variant: the loop falls through without the forced recovery
FellThrough_NoRecover(s) ==
    [s EXCEPT !.p.pc = "done", !.p.out = "exhausted"]

\* the loop fell through: reset_turn and the forced recovery to Active
FellThrough(s) ==
    LET s1 == [s EXCEPT !.p.pc = "done", !.p.out = "exhausted"] IN
    IF s.st \in {"processing", "speaking"}
    THEN StartActiveTimeout(
             [s1 EXCEPT !.st = "active", !.tt = Went(s.tt, s.st, "active")])
    ELSE s1

\* LLMClient.get_tool_use_blocks on the stored content
ToolBlocks(last) == IF last > 0 THEN last ELSE 0

\* `response_content or full_text`
AsstKind(last) ==
    IF last > 0 THEN "tool_use"
    ELSE IF last = 0 THEN "content"
    ELSE "full_text"

\* variant: a completed turn schedules no active-timeout
Completed_NoTimeout(s, m) ==
    LET r == try_on_tts_complete(s.st) IN
    ExtractMemoriesBg(SaveMessageBg(
        [s EXCEPT !.st = r.st, !.tt = Went(s.tt, s.st, r.st),
                  !.ctx = Append(s.ctx, m),
                  !.p.pc = "done", !.p.out = "completed"]))

\* normal completion: the assistant message, the active-timeout
Completed(s, m) ==
    LET r == try_on_tts_complete(s.st) IN
    ExtractMemoriesBg(StartActiveTimeout(SaveMessageBg(
        [s EXCEPT !.st = r.st, !.tt = Went(s.tt, s.st, r.st),
                  !.ctx = Append(s.ctx, m),
                  !.p.pc = "done", !.p.out = "completed"])))

\* after the join and player.finish: inspect the tool_use blocks
PostFinish(s, last, i) ==
    LET n == ToolBlocks(last)
        m == Msg("assistant", AsstKind(last))
    IN
    IF n = 0
    THEN IF try_on_tts_complete(s.st).ret
         THEN Completed(s, m)
         ELSE [s EXCEPT !.p.pc = "done", !.p.out = "interrupted"]
    ELSE SaveMessageBg(
           [s EXCEPT !.ctx = Append(s.ctx, m),
                     !.th = [n |-> n, raised |-> <<>>, results |-> <<>>],
                     !.p = [@ EXCEPT !.pc = "tool", !.asstAt = Len(s.ctx) + 1,
                                     !.nblocks = n, !.k = 1, !.results = <<>>,
                                     !.raised = <<>>]])

\* variant: every tool_result goes into a user message of its own
ResultMessages_PerTool(res) ==
    [k \in 1 .. Len(res) |-> Msg("user", "tool_result")]

\* the tool_results of one iteration, as appended to the context
ResultMessages(res) == << Msg("user", "tool_result") >>

\* execute_tool for block k returned or raised: its tool_result is collected
ToolResult(s, raises) ==
    [s EXCEPT !.p.results = Append(s.p.results,
                                   [tool_use_id |-> s.p.k, is_error |-> raises]),
              !.p.raised = Append(s.p.raised, raises)]

\* all tools of the iteration have run: the results message, the state
\* guard, on_tool_iteration and the next iteration
AfterTools(s, i) ==
    LET s1 == [s EXCEPT !.th = [n |-> s.p.nblocks, raised |-> s.p.raised,
                                results |-> s.p.results],
                        !.ctx = s.ctx \o ResultMessages(s.p.results)]
        r == on_tool_iteration(s1.st)
    IN
    IF s1.st # "speaking"
    THEN [s1 EXCEPT !.p.pc = "done", !.p.out = "interrupted_tools"]
    ELSE IF r.raised
    THEN ExcHandler(s1)
    ELSE LET s2 == [s1 EXCEPT !.st = r.st,
                              !.tt = Went(s1.tt, s1.st, r.st)] IN
         IF s.p.it + 1 < MAX_TOOL_ITERATIONS
         THEN StartIteration(s2, s.p.it + 1, i)
         ELSE FellThrough(s2)

\* variant: a tool that raises ends the invocation in the except clause
ToolDone_Abort(s, raises, i) ==
    IF raises THEN ExcHandler(s)
    ELSE IF s.p.k < s.p.nblocks
    THEN [ToolResult(s, raises) EXCEPT !.p.k = s.p.k + 1]
    ELSE AfterTools(ToolResult(s, raises), i)

\* one pass of `for block in tool_blocks`
ToolDone(s, raises, i) ==
    IF s.p.k < s.p.nblocks
    THEN [ToolResult(s, raises) EXCEPT !.p.k = s.p.k + 1]
    ELSE AfterTools(ToolResult(s, raises), i)

\* asyncio.wait(FIRST_EXCEPTION) returned: cancel what is pending, re-raise
JoinReady(p) ==
    \/ p.prod = "exc"
    \/ p.cons = "exc"
    \/ (p.prod = "done" /\ p.cons = "done")

CancelPending(p) ==
    LET canPut == p.qlen < queue_maxsize /\ p.prod # "sentinel" IN
    [p EXCEPT !.cons = IF p.cons \in {"done", "exc"} THEN p.cons
                       ELSE "cancelled",
              !.prod = IF p.prod \in {"done", "exc"} THEN p.prod
                       ELSE IF p.prod = "sentinel" \/ canPut THEN "cancelled"
                       ELSE "leaked",
              !.qsent = IF p.prod \in {"done", "exc"} THEN p.qsent
                        ELSE IF canPut THEN TRUE ELSE p.qsent]

Joined(s, last, i) ==
    LET s1 == [s EXCEPT !.p = CancelPending(s.p)] IN
    IF s.p.prod = "exc" \/ s.p.cons = "exc"
    THEN ExcHandler(s1)
    ELSE IF s1.st # "interrupted"
    THEN IF s1.pp = "running"
         THEN [s1 EXCEPT !.p.pc = "finish"]
         ELSE PostFinish(s1, last, i)
    ELSE PostFinish(s1, last, i)

\* the coroutine of invocation i resumes from its suspension point
PrResume(i, ok) ==
    /\ pr[i].pc \in {"ue_disconnect", "start", "wait", "finish", "tool",
                     "exc_kill"}
    /\ pr[i].pc = "wait" => JoinReady(pr[i])
    /\ pr[i].pc \notin {"start", "tool"} => ok
    /\ IF pr[i].pc = "ue_disconnect"
       THEN /\ stt_conn' = FALSE
            /\ recv_task' = "none"
            /\ PCommit(i, StartIteration(
                   SaveMessageBg([PNow(i) EXCEPT !.ctx =
                       Append(ctx, Msg("user", current_transcript))]),
                   0, i))
       ELSE /\ UNCHANGED << stt_conn, recv_task >>
            /\ PCommit(i,
                 CASE pr[i].pc = "start" ->
                        IF ok
                        THEN [PNow(i) EXCEPT !.pp = "running",
                                             !.p.pc = "wait",
                                             !.p.prod = "init",
                                             !.p.cons = "get"]
                        ELSE ExcHandler(PNow(i))
                   [] pr[i].pc = "wait" -> Joined(PNow(i), llm_last, i)
                   [] pr[i].pc = "finish" ->
                        PostFinish([PNow(i) EXCEPT !.pp = "none"], llm_last, i)
                   [] pr[i].pc = "tool" -> ToolDone(PNow(i), ~ok, i)
                   [] pr[i].pc = "exc_kill" -> Recover(PNow(i)))
    /\ UNCHANGED << smVars, cfgVars, sdVars, micVars, sessVars, vad_reset_by,
                    barge_in_count, elapsed, current_transcript,
                    pending_audio, stt_connected, llm_cancelled, llm_last,
                    tts_cancelled, h_pc, h_i, turnsLeft, framesLeft,
                    toolsLeft, biLog >>


\* --------------------------------------------------------- the producer
\* what the producer task touches: its invocation record, the two client
\* flags, the stored LLM content and the frames the TTS service has left
DNow(i) == [p |-> pr[i], lc |-> llm_cancelled, ll |-> llm_last,
            tc |-> tts_cancelled, fl |-> framesLeft, tl |-> toolsLeft]

\* the finally-block: `await audio_q.put(None)` suspends on a full queue
Sentinel(d, exc) ==
    IF d.p.qlen < queue_maxsize
    THEN [d EXCEPT !.p.qsent = TRUE, !.p.pexc = exc,
                   !.p.prod = IF exc THEN "exc" ELSE "done"]
    ELSE [d EXCEPT !.p.prod = "sentinel", !.p.pexc = exc]

\* after the LLM loop: flush the remainder of the sentence buffer
AfterLoop(d) ==
    IF d.p.buf /\ state # "interrupted"
    THEN [d EXCEPT !.tc = FALSE, !.p.prod = "flush_tts"]
    ELSE Sentinel(d, FALSE)

LlmEvents == {"delta", "sentence", "end_text", "end_tool", "raise"}
TtsEvents == {"frame", "end"}

\* LLMClient.stream_response delivers one event to the producer
ProdLlm(d, ev, n) ==
    IF ev = "raise" THEN Sentinel(d, TRUE)
    ELSE IF d.lc
    THEN \* cancelled: the generator breaks and stores the final message
         AfterLoop([d EXCEPT !.ll = IF ev = "end_text" THEN 0
                                    ELSE IF ev = "end_tool" THEN n
                                    ELSE NoneContent,
                             !.tl = IF ev = "end_tool" THEN d.tl - n
                                    ELSE d.tl])
    ELSE IF ev = "end_text" THEN AfterLoop([d EXCEPT !.ll = 0])
    ELSE IF ev = "end_tool"
    THEN AfterLoop([d EXCEPT !.ll = n, !.tl = d.tl - n])
    ELSE IF state = "interrupted" THEN AfterLoop(d)
    ELSE IF ev = "delta" THEN [d EXCEPT !.p.buf = TRUE]
    ELSE [d EXCEPT !.p.buf = FALSE, !.tc = FALSE,
                   !.p.prod = "tts"]

\* TTSClient.stream_audio delivers one frame or ends
ProdTts(d, ev) ==
    LET flush == d.p.prod = "flush_tts"
        ended == IF flush THEN Sentinel(d, FALSE) ELSE [d EXCEPT !.p.prod = "llm"]
    IN
    IF ev = "end" THEN ended
    ELSE LET d1 == [d EXCEPT !.fl = d.fl - 1] IN
         IF d.tc THEN IF flush THEN Sentinel(d1, FALSE)
                               ELSE [d1 EXCEPT !.p.prod = "llm"]
         ELSE IF state = "interrupted" THEN Sentinel(d1, FALSE)
         ELSE IF d.p.qlen < queue_maxsize
         THEN [d1 EXCEPT !.p.qlen = d.p.qlen + 1]
         ELSE [d1 EXCEPT !.p.prod = IF flush THEN "flush_put" ELSE "put"]

\* the producer task of invocation i runs to its next suspension point
Producer(i, ev, n) ==
    /\ pr[i].pc = "wait"
    /\ pr[i].prod \in {"init", "llm", "tts", "flush_tts", "put", "flush_put",
                       "sentinel"}
    /\ pr[i].prod \in {"put", "flush_put", "sentinel"}
          => pr[i].qlen < queue_maxsize
    /\ pr[i].prod \in {"tts", "flush_tts"} /\ ev = "frame" => framesLeft > 0
    /\ pr[i].prod \in {"tts", "flush_tts"} => ev \in TtsEvents /\ n = 1
    /\ pr[i].prod = "llm" => ev \in LlmEvents /\ (ev = "end_tool" \/ n = 1)
    /\ pr[i].prod = "llm" /\ ev = "end_tool" => n <= toolsLeft
    /\ pr[i].prod \notin {"llm", "tts", "flush_tts"} => ev = "end" /\ n = 1
    /\ LET d == DNow(i)
           e == CASE pr[i].prod = "init" ->
                       \* stream_response(system, messages, iter_tools)
                       [d EXCEPT !.lc = FALSE, !.ll = NoneContent,
                                 !.p.calls = Append(@, d.p.tools),
                                 !.p.prod = "llm"]
                  [] pr[i].prod = "llm" -> ProdLlm(d, ev, n)
                  [] pr[i].prod \in {"tts", "flush_tts"} -> ProdTts(d, ev)
                  [] pr[i].prod = "put" ->
                       [d EXCEPT !.p.qlen = d.p.qlen + 1, !.p.prod = "tts"]
                  [] pr[i].prod = "flush_put" ->
                       [d EXCEPT !.p.qlen = d.p.qlen + 1,
                                 !.p.prod = "flush_tts"]
                  [] pr[i].prod = "sentinel" ->
                       [d EXCEPT !.p.qsent = TRUE,
                                 !.p.prod = IF d.p.pexc THEN "exc" ELSE "done"]
       IN /\ pr' = [pr EXCEPT ![i] = e.p]
          /\ llm_cancelled' = e.lc
          /\ llm_last' = e.ll
          /\ tts_cancelled' = e.tc
          /\ framesLeft' = e.fl
          /\ toolsLeft' = e.tl
    /\ UNCHANGED << state, smVars, envVars, barge_in_count, elapsed,
                    current_transcript, pending_audio, stt_connected,
                    timeout_pending, ctx, stt_conn, recv_task, player_proc,
                    h_pc, h_i, turnsLeft, turnTrace, biLog, toolHist,
                    speaker >>

\* --------------------------------------------------------- the consumer
\* `data = await audio_q.get()` on a non-empty queue and the loop body up
\* to the next suspension (play_chunk suspends only on a live process)
ConsumeNext(p, el) ==
    LET stamp == IF p.first THEN 0 ELSE el IN
    IF p.qlen = 0
    THEN IF p.qsent
         THEN [p |-> [p EXCEPT !.qsent = FALSE, !.cons = "done"], el |-> el]
         ELSE [p |-> [p EXCEPT !.cons = "get"], el |-> el]
    ELSE IF state = "interrupted"
    THEN [p |-> [p EXCEPT !.qlen = p.qlen - 1, !.cons = "done"], el |-> el]
    ELSE IF player_proc = "running"
    THEN [p |-> [p EXCEPT !.qlen = p.qlen - 1, !.first = FALSE,
                          !.cons = "play"],
          el |-> stamp]
    ELSE [p |-> [p EXCEPT !.qlen = 0, !.first = FALSE, !.qsent = FALSE,
                          !.cons = IF p.qsent THEN "done" ELSE "get"],
          el |-> stamp]

\* the consumer task of invocation i runs to its next suspension point
Consumer(i, ok) ==
    /\ pr[i].pc = "wait"
    /\ pr[i].cons \in {"get", "play"}
    /\ pr[i].cons = "get" => ok /\ (pr[i].qlen > 0 \/ pr[i].qsent)
    /\ LET c == IF pr[i].cons = "play" /\ ~ok
                THEN [p |-> [pr[i] EXCEPT !.cons = "exc"], el |-> elapsed]
                ELSE ConsumeNext(pr[i], elapsed)
       IN /\ pr' = [pr EXCEPT ![i] = c.p]
          /\ elapsed' = c.el
    /\ UNCHANGED << state, smVars, envVars, barge_in_count,
                    current_transcript, pending_audio, stt_connected,
                    timeout_pending, ctx, stt_conn, recv_task, llm_cancelled,
                    llm_last, tts_cancelled, player_proc, h_pc, h_i,
                    turnsLeft, framesLeft, toolsLeft, turnTrace, biLog,
                    toolHist, speaker >>

\* ------------------------------------------------------- active timeout
\* variant: the session is saved without a new conversation_id
SaveSessionLog_SameId ==
    /\ archive' = IF session_msg_offset < Len(ctx)
                  THEN Append(archive, [id |-> conversation_id,
                                        from |-> session_msg_offset + 1,
                                        to |-> Len(ctx)])
                  ELSE archive
    /\ session_msg_offset' = Len(ctx)
    /\ conversation_id' = conversation_id

\* _save_session_log: `new_messages = messages[offset:]`, one save_session
\* call when there are any, then the offset and a fresh uuid4()
SaveSessionLog ==
    /\ archive' = IF session_msg_offset < Len(ctx)
                  THEN Append(archive, [id |-> conversation_id,
                                        from |-> session_msg_offset + 1,
                                        to |-> Len(ctx)])
                  ELSE archive
    /\ session_msg_offset' = Len(ctx)
    /\ conversation_id' = conversation_id + 1

\* variant: the timeout neither resets the VAD nor saves the session
TimeoutBody_IdleOnly ==
    /\ state' = on_active_timeout(state).st
    /\ turnTrace' = Went(turnTrace, state, on_active_timeout(state).st)
    /\ stt_conn' = FALSE
    /\ recv_task' = "none"
    /\ pr' = CancelCallback(pr)
    /\ UNCHANGED << sessVars, vad_reset_by >>

\* the body of _timeout under `if self._sm.state == State.ACTIVE`
TimeoutBody ==
    /\ state' = on_active_timeout(state).st
    /\ turnTrace' = Went(turnTrace, state, on_active_timeout(state).st)
    /\ stt_conn' = FALSE
    /\ recv_task' = "none"
    /\ pr' = CancelCallback(pr)
    /\ vad_reset_by' = "timeout"
    /\ SaveSessionLog

\* asyncio.sleep(active_timeout) of a _timeout task is over
TimeoutFire ==
    /\ timeout_tasks > 0
    /\ timeout_tasks' = timeout_tasks - 1
    /\ timeout_pending' = (timeout_tasks > 1)
    /\ timeout_fresh' = (timeout_fresh /\ timeout_tasks > 1)
    /\ UNCHANGED timeout_replaced
    /\ IF state = "active"
       THEN TimeoutBody
       ELSE UNCHANGED << state, turnTrace, stt_conn, recv_task, pr, sessVars,
                         vad_reset_by >>
    /\ UNCHANGED << smVars, cfgVars, bgVars, sdVars, micVars, barge_in_count,
                    elapsed, current_transcript, pending_audio, stt_connected,
                    ctx, llm_cancelled, llm_last, tts_cancelled, player_proc,
                    h_pc, h_i, turnsLeft, framesLeft, toolsLeft, biLog,
                    toolHist, speaker >>

\* ---------------------------------------------------- the specification
\* Pipeline.__init__ followed by a response long enough to fill the queue
\* ------------------------------------------------------ background tasks
\* a tracked task completes, its exceptions caught inside; the done
\* callback discards it from the set
BgTaskDone(t) ==
    /\ t \in bg_running
    /\ bg_running' = bg_running \ {t}
    /\ background_tasks' = background_tasks \ {t}
    /\ UNCHANGED << state, smVars, cfgVars, micVars, timerVars, sessVars,
                    vad_reset_by, sdVars, barge_in_count, elapsed,
                    current_transcript, pending_audio, stt_connected,
                    timeout_pending, ctx, stt_conn, recv_task, llm_cancelled,
                    llm_last, tts_cancelled, player_proc, h_pc, h_i, pr,
                    turnsLeft, framesLeft, toolsLeft, turnTrace, biLog,
                    toolHist, speaker >>

\* ---------------------------------------------------------------- shutdown
\* shutdown up to its first await: the flags, the session log, the cancel
\* of the _timeout task
ShutdownStart ==
    /\ sd_pc = "none"
    /\ stt_connected' = FALSE
    /\ pending_audio' = <<>>
    /\ SaveSessionLog
    /\ timeout_tasks' = 0
    /\ timeout_pending' = FALSE
    /\ timeout_fresh' = FALSE
    /\ sd_pc' = "closing"
    /\ UNCHANGED << state, smVars, cfgVars, micVars, timeout_replaced,
                    vad_reset_by, bgVars, sd_gather, barge_in_count, elapsed,
                    current_transcript, ctx, stt_conn, recv_task,
                    llm_cancelled, llm_last, tts_cancelled, player_proc, h_pc,
                    h_i, pr, turnsLeft, framesLeft, toolsLeft, turnTrace,
                    biLog, toolHist, speaker >>

\* the closeables have been awaited (stt.disconnect, player.kill among
\* them); every tracked task is cancelled and, if there is any, gathered
ShutdownClose ==
    /\ sd_pc = "closing"
    /\ stt_conn' = FALSE
    /\ recv_task' = "none"
    /\ pr' = CancelCallback(pr)
    /\ player_proc' = "none"
    /\ sd_gather' = background_tasks
    /\ sd_pc' = IF background_tasks # {} THEN "gather" ELSE "done"
    /\ UNCHANGED << state, smVars, cfgVars, micVars, timerVars, sessVars,
                    vad_reset_by, bgVars, barge_in_count, elapsed,
                    current_transcript, pending_audio, stt_connected,
                    timeout_pending, ctx, llm_cancelled, llm_last,
                    tts_cancelled, h_pc, h_i, turnsLeft, framesLeft,
                    toolsLeft, turnTrace, biLog, toolHist, speaker >>

\* asyncio.gather(..., return_exceptions=True) returned: the cancelled
\* tasks are over; then `self._background_tasks.clear()`
ShutdownGathered ==
    /\ sd_pc = "gather"
    /\ bg_running' = bg_running \ sd_gather
    /\ background_tasks' = {}
    /\ sd_pc' = "done"
    /\ UNCHANGED << state, smVars, cfgVars, micVars, timerVars, sessVars,
                    vad_reset_by, sd_gather, barge_in_count, elapsed,
                    current_transcript, pending_audio, stt_connected,
                    timeout_pending, ctx, stt_conn, recv_task, llm_cancelled,
                    llm_last, tts_cancelled, player_proc, h_pc, h_i, pr,
                    turnsLeft, framesLeft, toolsLeft, turnTrace, biLog,
                    toolHist, speaker >>

\* the names a tracked task can have
BgTasks == {"save", "extract"} \X (1 .. 2 * (MaxTurns + 1) * (MaxTools + 1))

InitQueue ==
    /\ InitWith(1, queue_maxsize + 2, 1, vad_threshold_normal,
                vad_threshold_speaking, barge_in_grace)
    /\ Configured(FALSE, FALSE)

\* Pipeline.__init__: _speaking_since = 0.0, so the grace window has long
\* passed on the monotonic clock
Init ==
    /\ InitWith(MaxTurns, MaxFrames, MaxTools, vad_threshold_normal,
                vad_threshold_speaking, barge_in_grace)
    /\ Configured(FALSE, FALSE)

Next ==
    \/ Tick
    \/ \E sp \in BOOLEAN : ChunkPlain(sp)
    \/ \E sp \in BOOLEAN : ChunkVadSpeech(sp)
    \/ \E sp \in BOOLEAN : ChunkBargeIn(sp)
    \/ \E ok \in BOOLEAN : HandlerResume(ok)
    \/ \E t \in {"blank", "text"} : SttTranscript(t)
    \/ SttUtteranceEnd
    \/ \E i \in PRs, ok \in BOOLEAN : PrResume(i, ok)
    \/ \E i \in PRs, ev \in LlmEvents \cup TtsEvents, n \in 1 .. MaxTools :
          Producer(i, ev, n)
    \/ \E i \in PRs, ok \in BOOLEAN : Consumer(i, ok)
    \/ TimeoutFire

\* one utterance more, so that an invocation of an earlier turn can still
\* be suspended while the next turn runs
InitOverlap ==
    /\ InitWith(MaxTurns + 1, MaxFrames, MaxTools - 1, vad_threshold_normal,
                vad_threshold_speaking, barge_in_grace)
    /\ Configured(FALSE, FALSE)

\* the orchestrator against a state machine with the tool_iteration
\* operation, and an LLM that can ask for tools in every iteration
InitToolIter ==
    /\ InitWith(MaxTurns, MaxFrames, MAX_TOOL_ITERATIONS,
                vad_threshold_normal, vad_threshold_speaking, barge_in_grace)
    /\ Configured(TRUE, FALSE)

Spec == Init /\ [][Next]_vars

SpecOverlap == InitOverlap /\ [][Next]_vars

SpecToolIter == InitToolIter /\ [][Next]_vars

\* two utterances with an LLM that asks for no tool: Active is
\* entered, left by speech and entered again
InitTimeout ==
    /\ InitWith(MaxTurns + 1, MaxFrames, 0, vad_threshold_normal,
                vad_threshold_speaking, barge_in_grace)
    /\ Configured(FALSE, FALSE)

SpecTimeout == InitTimeout /\ [][Next]_vars

\* the event loop resumes a _timeout task whose sleep is over
FairTimeout == SpecTimeout /\ WF_vars(TimeoutFire)

\* one session with the memory store configured, the background tasks and
\* a shutdown that can start at any moment
InitSession ==
    /\ InitWith(MaxTurns, MaxFrames, MaxTools - 1, vad_threshold_normal,
                vad_threshold_speaking, barge_in_grace)
    /\ Configured(FALSE, TRUE)

NextSession ==
    \/ Next
    \/ \E t \in BgTasks : BgTaskDone(t)
    \/ ShutdownStart
    \/ ShutdownClose
    \/ ShutdownGathered

SpecSession == InitSession /\ [][NextSession]_vars

\* the same operations in an environment without injected failures: every
\* await returns normally and the LLM stream does not raise
NextQueue ==
    \/ Tick
    \/ \E sp \in BOOLEAN : ChunkPlain(sp)
    \/ \E sp \in BOOLEAN : ChunkVadSpeech(sp)
    \/ \E sp \in BOOLEAN : ChunkBargeIn(sp)
    \/ HandlerResume(TRUE)
    \/ SttTranscript("text")
    \/ SttUtteranceEnd
    \/ \E i \in PRs : PrResume(i, TRUE)
    \/ \E i \in PRs, ev \in (LlmEvents \ {"raise"}) \cup TtsEvents :
          Producer(i, ev, 1)
    \/ \E i \in PRs : Consumer(i, TRUE)
    \/ TimeoutFire

SpecQueue == InitQueue /\ [][NextQueue]_vars

\* ===================================================== the components
\* Each component below is run on its own: the orchestrator is idle and
\* stays idle, the component's inputs are drawn from small sets.
orchVars == << state, sm_last, coreVars >>

Standalone(unit) ==
    /\ InitWith(0, 0, 0, vad_threshold_normal, vad_threshold_speaking, 0)
    /\ sm_tool_iteration = FALSE
    /\ graphrag_on = FALSE
    /\ memory_on = FALSE
    /\ UnitsExcept(unit)

\* ------------------------------------------------- Pipeline.shutdown
\* What the pipeline holds when shutdown is called: an active-timeout
\* task, a memory extractor, an embedder, background tasks, a DB pool.
SdConfigs == [timer : BOOLEAN, memory : BOOLEAN, embedder : BOOLEAN,
              tasks : BOOLEAN, pool : BOOLEAN]

closeables(c) ==
    <<"llm", "tts", "stt", "player">>
        \o (IF c.memory THEN <<"memory">> ELSE <<>>)
        \o (IF c.embedder THEN <<"embedder">> ELSE <<>>)

InitShutdown ==
    /\ Standalone("sdn")
    /\ \E c \in SdConfigs :
          sdn = [pc |-> "save", cfg |-> c, i |-> 1, tried |-> <<>>,
                 failed |-> {}]

\* A step is attempted and fails or not; "caught" says that the step is
\* inside a try block that catches what it raises.
Attempt(s, step, fails, caught, next) ==
    [s EXCEPT !.tried = Append(@, step),
              !.failed = IF fails THEN @ \cup {step} ELSE @,
              !.pc = IF fails /\ ~caught THEN "raised" ELSE next]

exceptSdn == << orchVars, vadp, sttc, recent, chunker, mem, aud, cli >>

\* _save_session_log: ConversationLogger.save_session catches its errors
SdSave ==
    /\ sdn.pc = "save"
    /\ \E fails \in BOOLEAN :
          sdn' = Attempt(sdn, "save", fails, TRUE, "timer")
    /\ UNCHANGED exceptSdn

\* cancel the active-timeout task and await it, inside try
SdTimer ==
    /\ sdn.pc = "timer"
    /\ \E fails \in BOOLEAN :
          sdn' = IF sdn.cfg.timer
                 THEN Attempt(sdn, "timer", fails, TRUE, "close")
                 ELSE [sdn EXCEPT !.pc = "close"]
    /\ UNCHANGED exceptSdn

\* variant: the loop over closeables without its try block
SdCloseNext_NoTry(s, fails) ==
    LET cs == closeables(s.cfg) IN
    Attempt([s EXCEPT !.i = @ + 1], cs[s.i], fails, FALSE,
            IF s.i = Len(cs) THEN "drain" ELSE "close")

\* one round of "for close_fn in closeables"
SdCloseNext(s, fails) ==
    LET cs == closeables(s.cfg) IN
    Attempt([s EXCEPT !.i = @ + 1], cs[s.i], fails, TRUE,
            IF s.i = Len(cs) THEN "drain" ELSE "close")

SdClose ==
    /\ sdn.pc = "close"
    /\ \E fails \in BOOLEAN : sdn' = SdCloseNext(sdn, fails)
    /\ UNCHANGED exceptSdn

\* cancel the background tasks, gather(return_exceptions=True)
SdGather ==
    /\ sdn.pc = "drain"
    /\ \E fails \in BOOLEAN :
          sdn' = IF sdn.cfg.tasks
                 THEN Attempt(sdn, "drain", fails, TRUE, "export")
                 ELSE [sdn EXCEPT !.pc = "export"]
    /\ UNCHANGED exceptSdn

\* export_tables, inside try
SdExportTables ==
    /\ sdn.pc = "export"
    /\ \E fails \in BOOLEAN :
          sdn' = IF sdn.cfg.pool
                 THEN Attempt(sdn, "export", fails, TRUE, "pool")
                 ELSE [sdn EXCEPT !.pc = "pool"]
    /\ UNCHANGED exceptSdn

\* pool.close, inside try
SdPool ==
    /\ sdn.pc = "pool"
    /\ \E fails \in BOOLEAN :
          sdn' = IF sdn.cfg.pool
                 THEN Attempt(sdn, "pool", fails, TRUE, "done")
                 ELSE [sdn EXCEPT !.pc = "done"]
    /\ UNCHANGED exceptSdn

NextShutdown ==
    \/ SdSave
    \/ SdTimer
    \/ SdClose
    \/ SdGather
    \/ SdExportTables
    \/ SdPool

SpecShutdown == InitShutdown /\ [][NextShutdown]_vars

\* ------------------------------------------------------- VADProcessor
\* Probabilities and thresholds are in tenths.  A chunk is named by its
\* position in the history of calls.  vad.py has the counter; the
\* pre-buffer that the pipeline and the tests use is not in vad.py and is
\* written from the specification: a ring of the last N chunks, drained by
\* drain_prebuffer and cleared by reset.
VadProbs == {vad_threshold_normal, vad_threshold_speaking}

InitVad ==
    /\ Standalone("vadp")
    /\ \E cap \in 1 .. MaxPrebuffer :
          vadp = [pc |-> "on", threshold |-> vad_threshold_normal,
                  speech_count |-> 0, ret |-> FALSE, prebuffer |-> <<>>,
                  maxlen |-> cap, drained |-> <<>>, hist |-> <<>>]

\* deque(maxlen=N).append
Retain(buf, chunk, cap) ==
    LET b == Append(buf, chunk) IN
    IF Len(b) > cap THEN SubSeq(b, Len(b) - cap + 1, Len(b)) ELSE b

\* variant: a miss leaves the counter alone
is_speech_Sticky(v, prob) ==
    LET c == IF prob >= v.threshold THEN v.speech_count + 1
                                    ELSE v.speech_count IN
    [v EXCEPT !.speech_count = c,
              !.ret = c >= speech_count_threshold]

is_speech(v, prob) ==
    LET c == IF prob >= v.threshold THEN v.speech_count + 1 ELSE 0 IN
    [v EXCEPT !.speech_count = c,
              !.ret = c >= speech_count_threshold]

reset(v) == [v EXCEPT !.speech_count = 0]

\* variant: the ring is handed over and kept
drain_prebuffer_Keep(v) == [v EXCEPT !.drained = v.prebuffer]

drain_prebuffer(v) == [v EXCEPT !.drained = v.prebuffer, !.prebuffer = <<>>]

Happened(v, e) == [v EXCEPT !.hist = Append(@, e)]

exceptVadp == << orchVars, sdn, sttc, recent, chunker, mem, aud, cli >>

VadSetThreshold ==
    /\ \E t \in {vad_threshold_normal, vad_threshold_speaking} :
          /\ t # vadp.threshold
          /\ vadp' = [vadp EXCEPT !.threshold = t]
    /\ UNCHANGED exceptVadp

VadIsSpeech ==
    /\ Len(vadp.hist) < MaxVadCalls
    /\ \E prob \in VadProbs :
          LET e == [e |-> "chunk", prob |-> prob, thr |-> vadp.threshold]
              v == Happened(is_speech(vadp, prob), e) IN
          vadp' = [v EXCEPT !.prebuffer =
                                Retain(@, Len(v.hist), v.maxlen)]
    /\ UNCHANGED exceptVadp

VadReset ==
    /\ Len(vadp.hist) < MaxVadCalls
    /\ LET e == [e |-> "reset", prob |-> 0, thr |-> vadp.threshold] IN
       vadp' = [Happened(reset(vadp), e) EXCEPT !.prebuffer = <<>>]
    /\ UNCHANGED exceptVadp

VadDrain ==
    /\ Len(vadp.hist) < MaxVadCalls
    /\ LET e == [e |-> "drain", prob |-> 0, thr |-> vadp.threshold] IN
       vadp' = Happened(drain_prebuffer(vadp), e)
    /\ UNCHANGED exceptVadp

NextVad ==
    \/ VadSetThreshold
    \/ VadIsSpeech
    \/ VadReset
    \/ VadDrain

SpecVad == InitVad /\ [][NextVad]_vars

\* --------------------------------------------------------- STTClient
\* One client, connect() called between the send_audio calls of two
\* audio-chunk coroutines that overlap (each chunk is a task of its own).
\* Every await of the client is a step; __aenter__, send_media and
\* __aexit__ succeed or raise.  A session is numbered by the connect that
\* opened it.  attempts, slept, outcome, failed_done, aexit_raised, refused
\* and the fields sess, failed, late of a call are history.
SttCallers == {1, 2}

SttIdle == [pc |-> "idle", sess |-> 0, failed |-> FALSE, late |-> FALSE]

InitStt ==
    /\ Standalone("sttc")
    /\ sttc = [pc |-> "on", connection |-> FALSE, connection_ctx |-> FALSE,
               recv_task |-> "none", sess |-> 0, n |-> 0, attempts |-> 0,
               slept |-> <<>>, outcome |-> "none", failed_done |-> {},
               aexit_raised |-> FALSE, refused |-> FALSE,
               calls |-> [c \in SttCallers |-> SttIdle]]

\* is_connected, as the pipeline reads it
is_connected(s) == s.connection

\* disconnect, run without interleaving: the receive task is cancelled and
\* forgotten, then __aexit__ closes the context or raises
disconnect(s, aexit_ok) ==
    LET t == [s EXCEPT !.recv_task = "none"] IN
    IF ~s.connection_ctx THEN [s |-> t, raised |-> FALSE]
    ELSE IF aexit_ok
         THEN [s |-> [t EXCEPT !.connection = FALSE,
                               !.connection_ctx = FALSE],
               raised |-> FALSE]
         ELSE [s |-> t, raised |-> TRUE]

\* the try block of connect: one __aenter__, no second attempt, no sleep
connect(s, aexit_ok, enter_ok) ==
    LET d == disconnect(s, aexit_ok)
        t == [d.s EXCEPT !.n = @ + 1, !.slept = <<>>] IN
    IF d.raised THEN [t EXCEPT !.attempts = 0, !.outcome = "raised"]
    ELSE IF enter_ok
         THEN [t EXCEPT !.attempts = 1, !.connection = TRUE,
                        !.connection_ctx = TRUE, !.recv_task = "running",
                        !.sess = @ + 1, !.outcome = "connected"]
         ELSE [t EXCEPT !.attempts = 1, !.connection = FALSE,
                        !.connection_ctx = FALSE,
                        !.outcome = "not_connected"]

\* a send_audio call returns: its caller is idle again
SttReturn(s, c) ==
    [s EXCEPT !.calls[c] = SttIdle,
              !.failed_done = IF s.calls[c].failed
                              THEN @ \cup {s.calls[c].sess} ELSE @]

\* "if self._connection:" of send_audio
send_audio(s, c) ==
    LET t == [s EXCEPT !.n = @ + 1] IN
    IF ~s.connection
    THEN [t EXCEPT !.refused = @ \/ s.sess \in s.failed_done]
    ELSE [t EXCEPT !.calls[c] =
                       [pc |-> "send_media", sess |-> s.sess,
                        failed |-> FALSE,
                        late |-> s.sess \in s.failed_done]]

\* the disconnect of send_audio after "await self._recv_task"
AfterRecv(s, c) ==
    LET t == [s EXCEPT !.recv_task = "none"] IN
    IF s.connection_ctx THEN [t EXCEPT !.calls[c].pc = "aexit"]
                        ELSE SttReturn(t, c)

\* send_media returned or raised
SendMedia(s, c, ok) ==
    IF ok THEN SttReturn(s, c)
    ELSE LET t == [s EXCEPT !.calls[c].failed = TRUE] IN
         IF s.recv_task # "none" THEN [t EXCEPT !.calls[c].pc = "recv"]
                                 ELSE AfterRecv(t, c)

\* variant: the handler of a raising disconnect clears nothing
AexitDone_Keep(s, c, ok) ==
    LET t == IF ok THEN [s EXCEPT !.connection = FALSE,
                                  !.connection_ctx = FALSE]
                   ELSE [s EXCEPT !.aexit_raised = TRUE] IN
    SttReturn(t, c)

\* __aexit__ returned, or raised into "except Exception" of send_audio
AexitDone(s, c, ok) ==
    LET t == IF ok THEN [s EXCEPT !.connection = FALSE,
                                  !.connection_ctx = FALSE]
                   ELSE [s EXCEPT !.connection = FALSE,
                                  !.connection_ctx = FALSE,
                                  !.aexit_raised = TRUE] IN
    SttReturn(t, c)

exceptSttc == << orchVars, sdn, vadp, recent, chunker, mem, aud, cli >>

SttConnect ==
    /\ sttc.n < MaxSttCalls
    /\ \A c \in SttCallers : sttc.calls[c].pc = "idle"
    /\ \E aexit_ok \in BOOLEAN, enter_ok \in BOOLEAN :
          sttc' = connect(sttc, aexit_ok, enter_ok)
    /\ UNCHANGED exceptSttc

SttSendAudio ==
    /\ sttc.n < MaxSttCalls
    /\ sttc.outcome # "none"
    /\ \E c \in SttCallers :
          /\ sttc.calls[c].pc = "idle"
          /\ sttc' = send_audio(sttc, c)
    /\ UNCHANGED exceptSttc

SttSendMedia ==
    /\ \E c \in SttCallers, ok \in BOOLEAN :
          /\ sttc.calls[c].pc = "send_media"
          /\ sttc' = SendMedia(sttc, c, ok)
    /\ UNCHANGED exceptSttc

SttRecvCancelled ==
    /\ \E c \in SttCallers :
          /\ sttc.calls[c].pc = "recv"
          /\ sttc' = AfterRecv(sttc, c)
    /\ UNCHANGED exceptSttc

SttAexit ==
    /\ \E c \in SttCallers, ok \in BOOLEAN :
          /\ sttc.calls[c].pc = "aexit"
          /\ sttc' = AexitDone(sttc, c, ok)
    /\ UNCHANGED exceptSttc

NextStt ==
    \/ SttConnect
    \/ SttSendAudio
    \/ SttSendMedia
    \/ SttRecvCancelled
    \/ SttAexit

SpecStt == InitStt /\ [][NextStt]_vars

\* ---------------------------------- ContextManager.get_recent_messages
\* A message is its role and what the function inspects of its content: a
\* string, a list made of tool_result blocks only, a list with a
\* tool_result block among others, a list without tool_result blocks.
CtxMessages ==
    {[role |-> "user", content |-> "str"],
     [role |-> "assistant", content |-> "str"],
     [role |-> "user", content |-> "tool_results"],
     [role |-> "user", content |-> "text_and_tool_result"],
     [role |-> "assistant", content |-> "tool_use"]}

\* isinstance(content, list) and any(... b.get("type") == "tool_result")
HasToolResult(m) == m.content \in {"tool_results", "text_and_tool_result"}

InitRecent ==
    /\ Standalone("recent")
    /\ recent = [pc |-> "on", messages |-> <<>>, called |-> FALSE,
                 max_turns |-> 0, out |-> <<>>]

\* list[-k:]
LastSlice(l, k) ==
    IF k = 0 \/ k >= Len(l) THEN l ELSE SubSeq(l, Len(l) - k + 1, Len(l))

\* the while loop
RECURSIVE TrimLeft(_)
TrimLeft(l) ==
    IF l # <<>> /\ (l[1].role # "user" \/ HasToolResult(l[1]))
    THEN TrimLeft(Tail(l))
    ELSE l

get_recent_messages(messages, max_turns) ==
    TrimLeft(LastSlice(messages, max_turns * 2))

exceptRecent == << orchVars, sdn, vadp, sttc, chunker, mem, aud, cli >>

CtxAddMessage ==
    /\ Len(recent.messages) < MaxLog
    /\ \E m \in CtxMessages :
          recent' = [recent EXCEPT !.messages = Append(@, m),
                                   !.called = FALSE, !.out = <<>>,
                                   !.max_turns = 0]
    /\ UNCHANGED exceptRecent

CtxGetRecent ==
    /\ \E k \in 0 .. MaxWindow :
          recent' = [recent EXCEPT
                        !.called = TRUE, !.max_turns = k,
                        !.out = get_recent_messages(recent.messages, k)]
    /\ UNCHANGED exceptRecent

NextRecent ==
    \/ CtxAddMessage
    \/ CtxGetRecent

SpecRecent == InitRecent /\ [][NextRecent]_vars

\* ------------------------------------- chunk_sentences under _produce
\* A text is a sequence of characters of three kinds: "a" a character of
\* a word, "." a sentence terminator (one of . ! ? ~), " " whitespace.
\* The LLM streams deltas; _produce appends each to its buffer and calls
\* chunk_sentences on it.  streamed and sentences are history.
Chars == {"a", ".", " "}

Deltas == UNION {[1 .. n -> Chars] : n \in 1 .. MaxDelta}

RECURSIVE lstrip(_)
lstrip(s) == IF s # <<>> /\ s[1] = " " THEN lstrip(Tail(s)) ELSE s

RECURSIVE rstrip(_)
rstrip(s) ==
    IF s # <<>> /\ s[Len(s)] = " " THEN rstrip(SubSeq(s, 1, Len(s) - 1))
    ELSE s

strip(s) == rstrip(lstrip(s))

\* _RE_SENTENCE_SPLIT.split: cut at every run of whitespace that follows a
\* terminator; cur is the part being read
RECURSIVE SplitFrom(_, _, _)
SplitFrom(s, i, cur) ==
    IF i > Len(s) THEN <<cur>>
    ELSE IF s[i] = " " /\ i > 1 /\ s[i - 1] = "."
         THEN LET rest == lstrip(SubSeq(s, i, Len(s))) IN
              <<cur>> \o SplitFrom(s, Len(s) - Len(rest) + 1, <<>>)
         ELSE SplitFrom(s, i + 1, Append(cur, s[i]))

\* [p.strip() for p in parts if p.strip()]
RECURSIVE Stripped(_)
Stripped(parts) ==
    IF parts = <<>> THEN <<>>
    ELSE LET p == strip(parts[1]) IN
         (IF p = <<>> THEN <<>> ELSE <<p>>) \o Stripped(Tail(parts))

chunk_sentences(text) ==
    LET stripped == strip(text) IN
    IF stripped = <<>> THEN [complete |-> <<>>, remainder |-> <<>>]
    ELSE LET parts == SplitFrom(stripped, 1, <<>>)
             last == parts[Len(parts)]
             front == SubSeq(parts, 1, Len(parts) - 1) IN
         IF last # <<>> /\ last[Len(last)] = "."
         THEN [complete |-> Stripped(parts), remainder |-> <<>>]
         ELSE IF Len(strip(last)) > MAX_BUFFER_CHARS
              THEN [complete |-> Append(Stripped(front), strip(last)),
                    remainder |-> <<>>]
              ELSE [complete |-> Stripped(front), remainder |-> strip(last)]

InitChunker ==
    /\ Standalone("chunker")
    /\ chunker = [pc |-> "streaming", streamed |-> <<>>, buffer |-> <<>>,
                  sentences |-> <<>>, input |-> <<>>,
                  output |-> chunk_sentences(<<>>)]

exceptChunker == << orchVars, sdn, vadp, sttc, recent, mem, aud, cli >>

\* one delta of the stream: buffer += chunk, then the chunker
ProduceChunk ==
    /\ chunker.pc = "streaming"
    /\ \E chunk \in Deltas :
          /\ Len(chunker.streamed) + Len(chunk) <= MaxStream
          /\ LET buf == chunker.buffer \o chunk
                 r == chunk_sentences(buf) IN
             chunker' = [chunker EXCEPT
                            !.streamed = @ \o chunk,
                            !.input = buf,
                            !.output = r,
                            !.sentences = @ \o r.complete,
                            !.buffer = r.remainder]
    /\ UNCHANGED exceptChunker

\* the stream ended: "Flush remaining"
ProduceFlush ==
    /\ chunker.pc = "streaming"
    /\ chunker' = [chunker EXCEPT
                      !.pc = "done",
                      !.sentences = IF strip(chunker.buffer) # <<>>
                                    THEN Append(@, strip(chunker.buffer))
                                    ELSE @,
                      !.buffer = <<>>]
    /\ UNCHANGED exceptChunker

NextChunker ==
    \/ ProduceChunk
    \/ ProduceFlush

SpecChunker == InitChunker /\ [][NextChunker]_vars

\* ---------------------------------------------------- MemoryExtractor
\* The message log grows by one user/assistant pair per turn.  After a
\* turn the pipeline's background task hands the log to the extractor and
\* saves what comes back; extract_incremental is the windowed entry that
\* other callers use.  Each call is one step.  window, upto_before,
\* index_before and saves are history: the messages last handed to the
\* extractor (from start + 1 to end), the end of the furthest window
\* handed before it, the index before the call, the save_extraction calls.
Extractions == {"empty", "entities"}

InitMemory ==
    /\ Standalone("mem")
    /\ \E interval \in 2 .. MaxInterval :
          mem = [pc |-> "on", community_rebuild_interval |-> interval,
                 messages |-> 0, last_extracted_index |-> 0,
                 extraction_count |-> 0, upto |-> 0, calls |-> 0,
                 window |-> [start |-> 0, end |-> 0], upto_before |-> 0,
                 index_before |-> 0, saves |-> <<>>]

Max(a, b) == IF a > b THEN a ELSE b

\* a list of messages is handed to extract_from_conversation
Handed(m, start) ==
    [m EXCEPT !.window = [start |-> start, end |-> m.messages],
              !.upto_before = m.upto,
              !.index_before = m.last_extracted_index,
              !.upto = Max(m.upto, m.messages),
              !.calls = @ + 1]

\* variant: a rebuild that raises leaves save_extraction
maybe_rebuild_communities_Raise(rebuild_ok) ==
    IF rebuild_ok THEN [rebuild |-> "ok", out |-> "saved"]
                  ELSE [rebuild |-> "raised", out |-> "failed"]

\* _maybe_rebuild_communities: rebuild() inside try / except Exception
maybe_rebuild_communities(rebuild_ok) ==
    IF rebuild_ok THEN [rebuild |-> "ok", out |-> "saved"]
                  ELSE [rebuild |-> "raised", out |-> "saved"]

save_extraction(m, extraction, store_ok, rebuild_ok) ==
    IF extraction = "empty"
    THEN [m EXCEPT !.saves = Append(@, [rebuild |-> "none", out |-> "empty"])]
    ELSE IF ~store_ok
    THEN [m EXCEPT !.saves = Append(@, [rebuild |-> "none", out |-> "failed"])]
    ELSE LET count == m.extraction_count + 1 IN
         [m EXCEPT
             !.extraction_count = count,
             !.saves = Append(@,
                 IF count % m.community_rebuild_interval = 0
                 THEN maybe_rebuild_communities(rebuild_ok)
                 ELSE [rebuild |-> "none", out |-> "saved"])]

extract_incremental(m) ==
    LET window_size == memory_extraction_window_turns * 2
        start == Max(m.last_extracted_index, m.messages - window_size) IN
    IF start >= m.messages THEN m
    ELSE [Handed(m, start) EXCEPT !.last_extracted_index = m.messages]

exceptMem == << orchVars, sdn, vadp, sttc, recent, chunker, aud, cli >>

\* a turn completes and Pipeline._extract_memories_bg runs its task: the
\* whole log goes to extract_from_conversation, the result to
\* save_extraction; a failure of either is logged
MemExtractBg ==
    /\ mem.calls < MaxMemCalls
    /\ \E llm_ok \in BOOLEAN, extraction \in Extractions,
          store_ok \in BOOLEAN, rebuild_ok \in BOOLEAN :
          LET m == Handed([mem EXCEPT !.messages = @ + 2], 0) IN
          mem' = IF llm_ok
                 THEN save_extraction(m, extraction, store_ok, rebuild_ok)
                 ELSE m
    /\ UNCHANGED exceptMem

\* a turn completes and its caller extracts incrementally
MemExtractIncremental ==
    /\ mem.calls < MaxMemCalls
    /\ mem' = extract_incremental([mem EXCEPT !.messages = @ + 2])
    /\ UNCHANGED exceptMem

NextMemory ==
    \/ MemExtractBg
    \/ MemExtractIncremental

SpecMemory == InitMemory /\ [][NextMemory]_vars

\* ------------------------------------------- the audio path to STT
\* _async_audio_chunk with the speech and barge-in handlers, the flush of
\* pending audio and the utterance end, run over numbered chunks: chunk n
\* is the n-th chunk captured.  Every chunk is its own coroutine; "h" is
\* the one that is suspended inside a handler.  The VAD verdict of a chunk
\* is given; the ring of the VAD is the one of the specification.  The
\* response to an utterance is reduced to its two effects on the state.
\* "sent" is the history of the send_audio calls since the last handler
\* drained the ring: the chunk, the state at the call and whether a
\* session was open; "since" is the number of chunks captured by then.
InitAudio ==
    /\ Standalone("aud")
    /\ aud = [pc |-> "on", state |-> "idle", barge_in_count |-> 0,
              stt_connected |-> FALSE, pending |-> <<>>, conn |-> FALSE,
              transcript |-> "blank", prebuffer |-> <<>>, captured |-> 0,
              h |-> "none", i |-> 0, trig |-> 0, drained |-> <<>>,
              since |-> 0, sent |-> <<>>]

exceptAud == << orchVars, sdn, vadp, sttc, recent, chunker, mem, cli >>

\* STTClient.send_audio is called with chunk c
Sends(a, c) ==
    [a EXCEPT !.sent = Append(@, [id |-> c, at |-> a.state,
                                  live |-> a.conn])]

\* variant: a chunk is sent whatever the flag says
forward_Direct(a, c) ==
    IF a.state = "listening" THEN Sends(a, c) ELSE a

\* "Forward audio to STT when listening"
forward(a, c) ==
    IF a.state # "listening" THEN a
    ELSE IF a.stt_connected THEN Sends(a, c)
    ELSE [a EXCEPT !.pending = Append(@, c)]

\* the handlers from "_stt_connected = False" to "await _stt.connect()";
\* connect() begins by dropping the session it holds
reconnect(a, c) ==
    [a EXCEPT !.stt_connected = FALSE, !.transcript = "blank",
              !.pending = a.prebuffer, !.drained = a.prebuffer,
              !.prebuffer = <<>>, !.conn = FALSE, !.h = "connect",
              !.trig = c, !.i = 0, !.since = a.captured, !.sent = <<>>]

\* the flush loop from element j on, then the end of the handler and the
\* forwarding of the chunk that called it
flush_pending(a, j) ==
    IF j <= Len(a.pending)
    THEN [Sends(a, a.pending[j]) EXCEPT !.h = "flush", !.i = j]
    ELSE forward([a EXCEPT !.pending = <<>>, !.stt_connected = TRUE,
                           !.h = "none", !.i = 0], a.trig)

\* One chunk is captured and its coroutine runs to its first suspension.
\* A handler is entered only while no other handler is suspended.
AudChunk ==
    /\ aud.captured < MaxChunks
    /\ \E speech, late \in BOOLEAN :
          LET c == aud.captured + 1
              a == [aud EXCEPT !.captured = c,
                               !.prebuffer = Retain(@, c, MaxPrebuffer)]
          IN
          IF ~speech
          THEN aud' = forward([a EXCEPT !.barge_in_count = 0], c)
          ELSE IF a.state \in {"idle", "active"}
          THEN /\ a.h = "none"
               /\ aud' = reconnect(
                      [a EXCEPT !.barge_in_count = 0,
                                !.state = on_speech_detected(a.state).st],
                      c)
          ELSE IF a.state = "speaking" /\ late
          THEN IF a.barge_in_count + 1 >= barge_in_frames
               THEN /\ a.h = "none"
                    /\ aud' = [a EXCEPT
                           !.barge_in_count = 0,
                           !.state = on_speech_detected(a.state).st,
                           !.h = "kill", !.trig = c]
               ELSE aud' = forward(
                        [a EXCEPT !.barge_in_count = @ + 1], c)
          ELSE aud' = forward(a, c)
    /\ UNCHANGED exceptAud

\* _handle_barge_in after "await _player.kill()"
AudKilled ==
    /\ aud.h = "kill"
    /\ LET r == on_interrupt_handled(aud.state) IN
       IF r.raised
       THEN aud' = [aud EXCEPT !.h = "none"]
       ELSE aud' = reconnect([aud EXCEPT !.state = r.st], aud.trig)
    /\ UNCHANGED exceptAud

\* "await _stt.connect()" returns, with a session or without
AudConnected ==
    /\ aud.h = "connect"
    /\ \E ok \in BOOLEAN :
          LET a == [aud EXCEPT !.conn = ok] IN
          IF ok THEN aud' = flush_pending(a, 1)
          ELSE aud' = forward([a EXCEPT !.state = "idle",
                                        !.pending = <<>>,
                                        !.h = "none"], a.trig)
    /\ UNCHANGED exceptAud

\* a send_audio of the flush loop returns
AudFlushed ==
    /\ aud.h = "flush"
    /\ aud' = flush_pending(aud, aud.i + 1)
    /\ UNCHANGED exceptAud

\* send_media failed: send_audio disconnects the session
AudDropped ==
    /\ aud.conn
    /\ aud.sent # <<>>
    /\ aud' = [aud EXCEPT !.conn = FALSE]
    /\ UNCHANGED exceptAud

\* _on_transcript with a final transcript
AudTranscript ==
    /\ aud.conn
    /\ aud.transcript = "blank"
    /\ aud' = [aud EXCEPT !.transcript = "text"]
    /\ UNCHANGED exceptAud

\* variant: the utterance end leaves pending_audio as it is
AudUtteranceEnd_Keep ==
    /\ aud.conn
    /\ LET r == on_utterance_complete(aud.state) IN
       IF aud.transcript = "blank" \/ r.raised
       THEN UNCHANGED aud
       ELSE aud' = [aud EXCEPT !.state = r.st, !.stt_connected = FALSE,
                               !.conn = FALSE]
    /\ UNCHANGED exceptAud

\* _handle_utterance_end up to the end of "await _stt.disconnect()"
AudUtteranceEnd ==
    /\ aud.conn
    /\ LET r == on_utterance_complete(aud.state) IN
       IF aud.transcript = "blank" \/ r.raised
       THEN UNCHANGED aud
       ELSE aud' = [aud EXCEPT !.state = r.st, !.stt_connected = FALSE,
                               !.pending = <<>>, !.conn = FALSE]
    /\ UNCHANGED exceptAud

\* _process_response: on_tts_started, later try_on_tts_complete
AudResponse ==
    /\ \/ /\ aud.state = "processing"
          /\ aud' = [aud EXCEPT !.state = on_tts_started(aud.state).st]
       \/ /\ aud.state = "speaking"
          /\ aud' = [aud EXCEPT
                        !.state = try_on_tts_complete(aud.state).st]
    /\ UNCHANGED exceptAud

NextAudio ==
    \/ AudChunk
    \/ AudKilled
    \/ AudConnected
    \/ AudFlushed
    \/ AudDropped
    \/ AudTranscript
    \/ AudUtteranceEnd
    \/ AudResponse

SpecAudio == InitAudio /\ [][NextAudio]_vars

\* The event loop runs every coroutine that can resume: a handler whose
\* await has returned goes on, and so does the response.  The STT service
\* reports an utterance end whenever it has one to report; it is not
\* obliged to hear words, and the microphone is not obliged to capture.
FairAudio ==
    /\ SpecAudio
    /\ WF_vars(AudKilled)
    /\ WF_vars(AudConnected)
    /\ WF_vars(AudFlushed)
    /\ WF_vars(AudUtteranceEnd)
    /\ WF_vars(AudResponse)

\* ------------------------------ LLMClient, TTSClient and AudioPlayer
\* The three clients the barge-in acts on, called one operation after the
\* other.  A stream_response call is numbered; "last" is the number of the
\* call whose final content is stored, 0 for None.  A generator is "open"
\* while it is suspended inside its stream, "final" while the LLM one waits
\* for the final message.  A new stream is called once the one before has
\* ended, failed or been abandoned by its consumer.  The paplay process is
\* "running", or "exited" once it has a return code.
\* "op", "raised" and "n" are history: the last operation, whether it
\* raised, and how many there were; "twice" says that the last operation
\* repeated the one before, "had" is the last call whose content was
\* stored, "written" counts the stdin writes.
CliOps == {"stream_response", "llm_event", "llm_final", "llm_abandon",
           "cancel", "stream_audio", "tts_event", "flush", "start",
           "exit", "play_chunk", "finish", "kill"}

InitClients ==
    /\ Standalone("cli")
    /\ cli = [pc |-> "on", cancelled |-> FALSE, last |-> 0, gen |-> "none",
              call |-> 0, tts_cancelled |-> FALSE, tts_gen |-> "none",
              process |-> "none", written |-> 0,
              op |-> "none", raised |-> FALSE, n |-> 0, twice |-> FALSE,
              had |-> 0]

exceptCli == << orchVars, sdn, vadp, sttc, recent, chunker, mem, aud >>

\* variant: a call leaves the stored content of the call before
stream_response_NoReset(c, ok) ==
    [c EXCEPT !.cancelled = FALSE, !.call = @ + 1,
              !.gen = IF ok THEN "open" ELSE "none", !.raised = ~ok]

\* LLMClient.stream_response up to the first event of the stream; entering
\* the stream may raise
stream_response(c, ok) ==
    [c EXCEPT !.cancelled = FALSE, !.last = 0, !.call = @ + 1,
              !.gen = IF ok THEN "open" ELSE "none", !.raised = ~ok]

\* one event of the stream: a text delta is yielded, the end of the stream
\* or a set _cancelled leads to the final message, an error is raised
llm_event(c, ev) ==
    IF ev = "error" THEN [c EXCEPT !.gen = "none", !.raised = TRUE]
    ELSE IF ev = "end" \/ c.cancelled THEN [c EXCEPT !.gen = "final"]
    ELSE c

\* get_final_message returns or raises
llm_final(c, ok) ==
    [c EXCEPT !.last = IF ok THEN c.call ELSE 0, !.gen = "none",
              !.had = IF ok THEN c.call ELSE @]

get_tool_use_blocks(c) == c.last

cancel(c) == [c EXCEPT !.cancelled = TRUE]

stream_audio(c) == [c EXCEPT !.tts_cancelled = FALSE, !.tts_gen = "open"]

\* one chunk of the TTS stream, its end or its failure, which is caught
tts_event(c, ev) ==
    IF ev # "delta" \/ c.tts_cancelled THEN [c EXCEPT !.tts_gen = "none"]
    ELSE c

\* variant: flush toggles the flag
flush_Toggle(c) == [c EXCEPT !.tts_cancelled = ~@]

flush(c) == [c EXCEPT !.tts_cancelled = TRUE]

\* AudioPlayer.start: create_subprocess_exec returns a process or raises
start(c, ok) ==
    IF ok THEN [c EXCEPT !.process = "running"] ELSE [c EXCEPT !.raised = TRUE]

\* a write to the stdin of a process that has exited may fail
play_chunk(c, ok) ==
    IF c.process = "none" THEN c
    ELSE [c EXCEPT !.written = @ + 1,
                   !.raised = c.process = "exited" /\ ~ok]

finish(c) == [c EXCEPT !.process = "none"]

kill(c) == [c EXCEPT !.process = "none"]

CliCall(op) ==
    /\ cli.n < MaxCliCalls
    /\ op \in {"stream_response", "llm_abandon"}
          => cli.gen = (IF op = "llm_abandon" THEN "open" ELSE "none")
    /\ op = "llm_event" => cli.gen = "open"
    /\ op = "llm_final" => cli.gen = "final"
    /\ op = "stream_audio" => cli.tts_gen = "none"
    /\ op = "tts_event" => cli.tts_gen = "open"
    /\ op = "exit" => cli.process = "running"
    /\ \E ok \in BOOLEAN, ev \in {"delta", "end", "error"} :
          LET c == [cli EXCEPT !.op = op, !.n = @ + 1, !.raised = FALSE,
                               !.twice = op = cli.op] IN
          cli' = CASE op = "stream_response" -> stream_response(c, ok)
                   [] op = "llm_event" -> llm_event(c, ev)
                   [] op = "llm_final" -> llm_final(c, ok)
                   [] op = "llm_abandon" -> [c EXCEPT !.gen = "none"]
                   [] op = "cancel" -> cancel(c)
                   [] op = "stream_audio" -> stream_audio(c)
                   [] op = "tts_event" -> tts_event(c, ev)
                   [] op = "flush" -> flush(c)
                   [] op = "start" -> start(c, ok)
                   [] op = "exit" -> [c EXCEPT !.process = "exited"]
                   [] op = "play_chunk" -> play_chunk(c, ok)
                   [] op = "finish" -> finish(c)
                   [] op = "kill" -> kill(c)
    /\ UNCHANGED exceptCli

NextClients == \E op \in CliOps : CliCall(op)

SpecClients == InitClients /\ [][NextClients]_vars

\* ============================================================ properties

\* C9: the state machine offers a tool_iteration operation that moves
\* Speaking to Processing and, in every other state, is rejected and leaves
\* the state unchanged.
C9_ToolIterationOffered ==
    sm_last.op = "on_tool_iteration" =>
        IF sm_last.from = "speaking"
        THEN state = "processing" /\ ~sm_last.raised
        ELSE state = sm_last.from /\ sm_last.raised

\* C1 (as stated): every change of the turn state is a transition of the
\* table of section 4.2 and no other change of state ever occurs.
C1_OnlyTableTransitions ==
    \A k \in 1 .. (Len(turnTrace) - 1) :
        << turnTrace[k], turnTrace[k + 1] >> \in
            { << "idle", "listening" >>, << "listening", "processing" >>,
              << "processing", "speaking" >>, << "speaking", "active" >>,
              << "speaking", "interrupted" >>, << "speaking", "processing" >>,
              << "interrupted", "listening" >>, << "active", "listening" >>,
              << "active", "idle" >> }

\* C1 (amended): every change of the turn state is a transition of the
\* table of section 4.2, or the hard fallback Listening -> Idle after a failed
\* STT connect, or the forced recovery Processing -> Active of the except
\* clause of process_response.
C1_TableOrFallbackOrRecovery ==
    \A k \in 1 .. (Len(turnTrace) - 1) :
        << turnTrace[k], turnTrace[k + 1] >> \in
            { << "idle", "listening" >>, << "listening", "processing" >>,
              << "processing", "speaking" >>, << "speaking", "active" >>,
              << "speaking", "interrupted" >>, << "speaking", "processing" >>,
              << "interrupted", "listening" >>, << "active", "listening" >>,
              << "active", "idle" >>,
              << "listening", "idle" >>, << "processing", "active" >> }

\* a turn in which the except clause forced Processing -> Active
C1_ForcedFromProcessing ==
    \E k \in 1 .. (Len(turnTrace) - 1) :
        turnTrace[k] = "processing" /\ turnTrace[k + 1] = "active"

\* C2: once a barge-in has hit the response an invocation is speaking, that
\* invocation appends no assistant message to the context.
C2_NoAppendAfterBargeIn ==
    [][\A i \in PRs :
          (pr[i].barged /\ pr'[i] # pr[i]) =>
              ~(Len(ctx') > Len(ctx) /\ Last(ctx').role = "assistant")]_vars

\* C3: the producer is never left suspended on posting the sentinel to a
\* full queue that the consumer has stopped reading, so the join returns.
C3_SentinelAlwaysPosted ==
    \A i \in PRs :
        ~(/\ pr[i].pc = "wait"
          /\ pr[i].prod = "sentinel"
          /\ pr[i].qlen = queue_maxsize
          /\ pr[i].cons = "done")

\* the steps of a barge-in, in the order section 5 gives them
BargeInSteps ==
    << "interrupted", "llm_cancel", "tts_flush", "kill", "killed",
       "listening", "connected" >>

\* C4: on a barge-in the state becomes Interrupted, LLM cancel and TTS flush
\* are invoked, the player kill is awaited, only then the state goes to
\* Listening, only after that STT is reconnected, and the drained pre-buffer
\* audio is sent to STT before any newer audio.
C4_BargeInOrder ==
    /\ \A k \in 1 .. Len(biLog) :
          IF k <= Len(BargeInSteps)
          THEN biLog[k] = BargeInSteps[k]
          ELSE /\ biLog[k] \in {"send_pre", "send_new"}
               /\ biLog[k] = "send_pre" =>
                     biLog[k - 1] \in {"connected", "send_pre"}
    /\ h_pc = "bi_kill" =>
          /\ state = "interrupted"
          /\ biLog = SubSeq(BargeInSteps, 1, 4)
    /\ h_pc = "bi_connect" =>
          /\ state = "listening"
          /\ ~stt_conn
          /\ biLog = SubSeq(BargeInSteps, 1, 6)
    /\ h_pc = "bi_flush" => Len(biLog) > Len(BargeInSteps)

\* a barge-in that ran to the end: pre-buffer audio, then a newer chunk
C4_BargeInCompleted ==
    biLog = BargeInSteps \o << "send_pre", "send_new" >>

\* C5: Speaking -> Interrupted is taken only in Speaking, when at least
\* barge_in_grace has elapsed since the first frame of the current response
\* was handed to the player and the counter has reached barge_in_frames, and
\* the counter is zero right after.
C5_BargeInAfterGrace ==
    [][(state = "speaking" /\ state' = "interrupted") =>
          /\ elapsed >= barge_in_grace
          /\ barge_in_count + 1 >= barge_in_frames
          /\ barge_in_count' = 0
          /\ pr[speaker].pc \in {"start", "wait"} => ~pr[speaker].first]_vars

\* C6: a turn with speech detected in Idle, a committed transcript, a
\* text-only response and no barge-in or failure goes Idle -> Listening ->
\* Processing -> Speaking -> Active; when Active is reached the context ends
\* with the user message and the assistant message and an active-timeout is
\* pending.  The turn is the first of the session, so that no invocation of
\* an earlier turn runs beside it.
C6_PlainTurn ==
    ( /\ LatestPR = 1
      /\ pr[LatestPR].out = "completed"
      /\ Len(turnTrace) >= 3
      /\ SubSeq(turnTrace, 1, 3) = << "idle", "listening", "processing" >>
      /\ \A k \in 1 .. Len(turnTrace) : turnTrace[k] # "interrupted" )
    => /\ Len(turnTrace) >= 5
       /\ SubSeq(turnTrace, 1, 5) =
             << "idle", "listening", "processing", "speaking", "active" >>
       /\ Len(turnTrace) = 5 =>
             /\ state = "active"
             /\ timeout_pending
             /\ Len(ctx) >= 2
             /\ ctx[Len(ctx) - 1] = Msg("user", "text")
             /\ ctx[Len(ctx)] = Msg("assistant", "content")

\* a plain turn that has just reached Active
C6_PlainTurnDone ==
    /\ LatestPR = 1
    /\ pr[LatestPR].out = "completed"
    /\ turnTrace = << "idle", "listening", "processing", "speaking", "active" >>
    /\ state = "active"
    /\ timeout_pending

\* the messages of the context of one kind
OfKind(kind) == { k \in 1 .. Len(ctx) : ctx[k].kind = kind }

\* C7: in every tool iteration the assistant message carrying the tool_use
\* blocks is in the context before any tool is executed, and the tool_results
\* of the iteration are appended as one single user message, which is there
\* before the next LLM call begins.
C7_ToolMessages ==
    /\ \A i \in PRs :
          pr[i].pc = "tool" =>
              /\ pr[i].asstAt \in 1 .. Len(ctx)
              /\ ctx[pr[i].asstAt] = Msg("assistant", "tool_use")
    /\ Cardinality(OfKind("tool_result")) =
          Cardinality(OfKind("tool_use"))
              - Cardinality({ i \in PRs : pr[i].pc = "tool" })
    /\ \A k \in OfKind("tool_result") : ctx[k].role = "user"
    /\ \A i \in PRs :
          (pr[i].pc \in {"start", "wait"} /\ pr[i].it > 0) =>
              Cardinality(OfKind("tool_result")) >= pr[i].it

\* an iteration with two tool_use blocks whose results are in the context
C7_TwoToolsOneMessage ==
    /\ toolHist.n = 2
    /\ Len(toolHist.results) = 2
    /\ Cardinality(OfKind("tool_use")) = 1
    /\ Cardinality(OfKind("tool_result")) = 1

\* C8: when the tools of a response have run and the state is still
\* Speaking, the state goes Speaking -> Processing and the LLM is called
\* again: the invocation starts its next iteration.
C8_SecondLlmCall ==
    [][\A i \in PRs :
          ( /\ pr[i].pc = "tool"
            /\ pr[i].k = pr[i].nblocks
            /\ state = "speaking"
            /\ Len(ctx') = Len(ctx) + 1 )
          => /\ pr'[i].pc = "start"
             /\ pr'[i].it = pr[i].it + 1
             /\ turnTrace' = turnTrace \o << "processing", "speaking" >>]_vars

\* C10: every tool_use block of an iteration gets exactly one tool_result
\* with its tool_use_id, in block order; a tool that raises gets a
\* tool_result with is_error true, and the remaining tools still run.
C10_OneResultPerBlock ==
    /\ \A i \in PRs :
          pr[i].pc = "tool" =>
              /\ Len(pr[i].results) = pr[i].k - 1
              /\ \A j \in 1 .. Len(pr[i].results) :
                    /\ pr[i].results[j].tool_use_id = j
                    /\ pr[i].results[j].is_error = pr[i].raised[j]
    /\ (toolHist.n > 0 /\ \A i \in PRs : pr[i].pc # "tool") =>
          /\ Len(toolHist.results) = toolHist.n
          /\ Len(toolHist.raised) = toolHist.n
          /\ \A j \in 1 .. toolHist.n :
                /\ toolHist.results[j].tool_use_id = j
                /\ toolHist.results[j].is_error = toolHist.raised[j]

\* the first of two tools raised and the second still ran
C10_FirstToolRaised ==
    /\ toolHist.n = 2
    /\ Len(toolHist.results) = 2
    /\ toolHist.results[1].is_error
    /\ ~toolHist.results[2].is_error

\* C11 (as stated): when an exception escapes inside process_response the
\* player is killed, and afterwards the state is Active with an
\* active-timeout pending if it was Processing or Speaking at the moment of
\* the exception, and unchanged otherwise.
C11_RecoveryByStateAtException ==
    [][\A i \in PRs :
          (pr[i].out # "recovered" /\ pr'[i].out = "recovered") =>
              /\ player_proc' = "none"
              /\ IF pr'[i].excAt \in {"processing", "speaking"}
                 THEN state' = "active" /\ timeout_pending'
                 ELSE state' = state]_vars

\* C11 (amended): the state the recovery looks at is the state when the
\* player kill has returned: Active with an active-timeout pending if it is
\* Processing or Speaking then, and unchanged otherwise.
C11_RecoveryByStateAfterKill ==
    [][\A i \in PRs :
          (pr[i].out # "recovered" /\ pr'[i].out = "recovered") =>
              /\ player_proc' = "none"
              /\ IF state \in {"processing", "speaking"}
                 THEN state' = "active" /\ timeout_pending'
                 ELSE state' = state /\ timeout_pending' = timeout_pending]_vars

\* an exception raised in Speaking whose recovery found the state moved on
C11_RecoveredElsewhere ==
    \E i \in PRs :
        /\ pr[i].out = "recovered"
        /\ pr[i].excAt = "speaking"
        /\ "interrupted" \in { turnTrace[k] : k \in 1 .. Len(turnTrace) }
        /\ state # "active"

\* C12: one invocation of process_response makes at most
\* MAX_TOOL_ITERATIONS LLM calls, and when every one of them returned
\* tool_use blocks the invocation returns with the state Active and an
\* active-timeout pending.
C12_ToolLoopBounded ==
    [][\A i \in PRs :
          /\ Len(pr'[i].calls) <= MAX_TOOL_ITERATIONS
          /\ (pr[i].out # "exhausted" /\ pr'[i].out = "exhausted") =>
                 /\ Len(pr'[i].calls) = MAX_TOOL_ITERATIONS
                 /\ pr'[i].pc = "done"
                 /\ state' = "active"
                 /\ timeout_pending']_vars

\* the loop ran out of iterations and the turn was recovered to Active
C12_LoopExhausted ==
    \E i \in PRs :
        /\ pr[i].out = "exhausted"
        /\ Len(pr[i].calls) = MAX_TOOL_ITERATIONS
        /\ state = "active"
        /\ timeout_pending

\* C13: every LLM call of the tool loop, the one of the last permitted
\* iteration included, is given the tools list.
C13_EveryCallGetsTools ==
    \A i \in PRs : \A k \in 1 .. Len(pr[i].calls) : pr[i].calls[k]

\* C14: when STT is not connected after connect returns, in
\* handle_vad_speech or in handle_barge_in, the handler ends there with the
\* state Idle, pending_audio empty and stt_connected false, and no buffered
\* chunk is handed to STT.
C14_ConnectFallback ==
    [][(h_pc \in {"vs_connect", "bi_connect"} /\ h_pc' # h_pc /\ ~stt_conn') =>
          /\ state' = "idle"
          /\ pending_audio' = <<>>
          /\ ~stt_connected'
          /\ h_pc' = "none"
          /\ biLog' = biLog]_vars

\* a barge-in whose connect failed has fallen back to Idle
C14_BargeInFellBack ==
    /\ state = "idle"
    /\ h_pc = "none"
    /\ ~stt_conn
    /\ Len(turnTrace) >= 3
    /\ SubSeq(turnTrace, Len(turnTrace) - 2, Len(turnTrace))
          = << "interrupted", "listening", "idle" >>

\* C15: as long as no chunk has made the VAD report speech, whatever the
\* number of chunks, the state is Idle, STT has not been opened, nothing
\* was buffered for or sent to STT and the context is empty.
C15_SilenceChangesNothing ==
    ~heard =>
        /\ state = "idle"
        /\ ~stt_conn /\ recv_task = "none" /\ ~stt_connected
        /\ h_pc = "none"
        /\ pending_audio = <<>>
        /\ biLog = <<>>
        /\ ctx = <<>>
        /\ \A i \in PRs : pr[i].pc = "none"

\* MaxSilence chunks of silence have been processed
C15_LongSilence == ~heard /\ silent_chunks = MaxSilence /\ state = "idle"

\* C16: every assistant message of the context directly follows a user
\* message: the log does not start with an assistant message and holds no
\* two assistant messages in a row.
C16_AssistantFollowsUser ==
    \A k \in 1 .. Len(ctx) :
        ctx[k].role = "assistant" => k > 1 /\ ctx[k - 1].role = "user"

\* C17: at every moment at most one _timeout task is asleep: scheduling an
\* active-timeout cancels the one scheduled before.
C17_OneTimeoutTask ==
    /\ timeout_tasks <= 1
    /\ timeout_pending <=> timeout_tasks = 1

\* an active-timeout was scheduled while another was asleep, and replaced it
C17_TimeoutReplaced == timeout_replaced /\ timeout_tasks = 1

\* C18: a _timeout task that wakes while the state is Active moves the
\* state to Idle, leaves STT disconnected, resets the VAD and saves the
\* session log; one that wakes in any other state changes nothing.
C18_TimeoutEffects ==
    [][(timeout_tasks' < timeout_tasks /\ sd_pc' = sd_pc) =>
          IF state = "active"
          THEN /\ state' = "idle"
               /\ ~stt_conn' /\ recv_task' = "none"
               /\ vad_reset_by' = "timeout"
               /\ session_msg_offset' = Len(ctx)
               /\ conversation_id' # conversation_id
          ELSE UNCHANGED << state, stt_conn, recv_task, stt_connected,
                            vad_reset_by, sessVars, ctx, pr >>]_vars

\* the timeout has fired in Active and archived the turn
C18_TimedOutToIdle ==
    /\ state = "idle"
    /\ vad_reset_by = "timeout"
    /\ timeout_tasks = 0
    /\ Len(archive) = 1
    /\ archive[1].to = Len(ctx)

\* the conversation ids the archive has used
ArchiveIds == { archive[k].id : k \in 1 .. Len(archive) }

C20_TasksTracked ==
    [][/\ bg_running' = background_tasks'
       /\ (sd_pc # "done" /\ sd_pc' = "done") =>
             /\ background_tasks' = {}
             /\ sd_gather' \cap bg_running' = {}]_vars

\* C22: try_on_tts_complete returns true and moves the state to Active
\* exactly when the state is Speaking; in every other state it returns
\* false, raises nothing and leaves the state alone.  on_tts_complete, the
\* strict form, raises in every state other than Speaking.
C22_TryTtsComplete ==
    /\ sm_last.op = "try_on_tts_complete" =>
          /\ ~sm_last.raised
          /\ sm_last.ret <=> sm_last.from = "speaking"
          /\ state = (IF sm_last.from = "speaking" THEN "active"
                                                   ELSE sm_last.from)
    /\ sm_last.op = "on_tts_complete" =>
          /\ sm_last.raised <=> sm_last.from # "speaking"
          /\ ~sm_last.ret
          /\ state = (IF sm_last.from = "speaking" THEN "active"
                                                   ELSE sm_last.from)

\* the "try" form was called on an interrupted response
C22_TriedWhenInterrupted ==
    /\ sm_last.op = "try_on_tts_complete"
    /\ sm_last.from = "interrupted"
    /\ state = "interrupted"
    /\ ~sm_last.ret

\* the steps of a shutdown, in the order of the code
SdSteps(c) ==
    <<"save">>
        \o (IF c.timer THEN <<"timer">> ELSE <<>>)
        \o closeables(c)
        \o (IF c.tasks THEN <<"drain">> ELSE <<>>)
        \o (IF c.pool THEN <<"export", "pool">> ELSE <<>>)

\* C21: shutdown always runs to completion: whichever of its steps fail
\* (session-log save, active-timeout cancel, closing LLM, TTS, STT, player,
\* memory, embedder, draining background tasks, DB export, DB pool close),
\* no failure leaves shutdown, the steps are attempted in order, and once
\* shutdown has returned every step was attempted.
C21_ShutdownCompletes ==
    /\ sdn.pc # "raised"
    /\ Len(sdn.tried) <= Len(SdSteps(sdn.cfg))
    /\ sdn.tried = SubSeq(SdSteps(sdn.cfg), 1, Len(sdn.tried))
    /\ sdn.pc = "done" => sdn.tried = SdSteps(sdn.cfg)

\* every one of the eleven steps failed and shutdown returned
C21_AllStepsFailed ==
    /\ sdn.pc = "done"
    /\ Len(sdn.tried) = 11
    /\ sdn.failed = {"save", "timer", "llm", "tts", "stt", "player",
                     "memory", "embedder", "drain", "export", "pool"}

\* the chunks at or above their threshold that end the history, with no
\* miss and no reset among them
RECURSIVE TrailingSpeech(_)
TrailingSpeech(h) ==
    IF h = <<>> THEN 0
    ELSE LET e == h[Len(h)]
             before == SubSeq(h, 1, Len(h) - 1) IN
         IF e.e = "drain" THEN TrailingSpeech(before)
         ELSE IF e.e = "chunk" /\ e.prob >= e.thr
              THEN 1 + TrailingSpeech(before)
              ELSE 0

\* C23: the counter always equals the number of consecutive chunks, up to
\* the latest one, whose probability was at or above the threshold in force
\* when each was processed, with no reset in between (a chunk below
\* threshold and a reset set it to zero); the VAD reports speech for a
\* chunk exactly when that number is at least speech_count_threshold.
C23_HystereticCounter ==
    /\ vadp.speech_count = TrailingSpeech(vadp.hist)
    /\ (vadp.hist # <<>> /\ vadp.hist[Len(vadp.hist)].e = "chunk") =>
          (vadp.ret <=>
              TrailingSpeech(vadp.hist) >= speech_count_threshold)

\* speech was reported, then a miss, and the next chunk above threshold
\* is not reported although three of the last four were above
C23_SpeechThenMiss ==
    /\ Len(vadp.hist) >= 5
    /\ LET n == Len(vadp.hist) IN
       /\ \A k \in {n - 4, n - 3, n - 2, n} :
             vadp.hist[k].e = "chunk" /\ vadp.hist[k].prob >= vadp.hist[k].thr
       /\ vadp.hist[n - 1].e = "chunk"
       /\ vadp.hist[n - 1].prob < vadp.hist[n - 1].thr
       /\ vadp.hist[n].thr # vadp.hist[n - 2].thr
    /\ vadp.speech_count = 1
    /\ ~vadp.ret

\* the chunks passed to is_speech since the last drain or reset
RECURSIVE SinceCleared(_)
SinceCleared(h) ==
    IF h = <<>> THEN <<>>
    ELSE IF h[Len(h)].e = "chunk"
         THEN Append(SinceCleared(SubSeq(h, 1, Len(h) - 1)), Len(h))
         ELSE <<>>

LastOf(q, n) == SubSeq(q, Len(q) - n + 1, Len(q))

Min(a, b) == IF a < b THEN a ELSE b

C25_ConnectRetries ==
    /\ sttc.attempts <= 4
    /\ sttc.outcome = "connected" =>
          sttc.slept = SubSeq(<<5, 10, 20>>, 1, sttc.attempts - 1)
    /\ sttc.outcome = "not_connected" =>
          /\ sttc.attempts = 4
          /\ sttc.slept = <<5, 10, 20>>
          /\ ~is_connected(sttc)

Suffix(l, n) == SubSeq(l, Len(l) - n + 1, Len(l))

\* a user message whose content is not purely tool_result blocks
RealUser(m) == m.role = "user" /\ m.content # "tool_results"

\* C27: for every message log and every max_turns, get_recent_messages
\* returns a contiguous suffix of the log of at most max_turns * 2
\* messages, trimmed from the left only as far as needed so that its first
\* element, when there is one, is a user message whose content is not
\* purely tool_result blocks.
C27_RecentWindow ==
    recent.called =>
        LET l == recent.messages
            n == Len(recent.out) IN
        /\ n <= Len(l)
        /\ recent.out = Suffix(l, n)
        /\ n <= recent.max_turns * 2
        /\ n > 0 => RealUser(recent.out[1])
        /\ \A k \in (n + 1) .. Len(l) :
              k <= recent.max_turns * 2 => ~RealUser(Suffix(l, k)[1])

\* the characters of a text that are not whitespace, in order
RECURSIVE NonSpace(_)
NonSpace(s) ==
    IF s = <<>> THEN <<>>
    ELSE (IF s[1] = " " THEN <<>> ELSE <<s[1]>>) \o NonSpace(Tail(s))

\* where a text separates two words: the numbers of non-whitespace
\* characters that come before a whitespace inside the text
Cuts(s) ==
    {Len(NonSpace(SubSeq(s, 1, i))) :
        i \in {k \in 1 .. Len(s) : s[k] = " "}} \ {0, Len(NonSpace(s))}

\* the texts of a list, one after the other, a blank between two
RECURSIVE Spaced(_)
Spaced(l) == IF l = <<>> THEN <<>> ELSE l[1] \o <<" ">> \o Spaced(Tail(l))

\* C28: for every buffer the chunker is called on, each remainder plus
\* next delta of a stream included, the complete sentences followed by the
\* remainder have the non-whitespace characters of the input, none lost,
\* duplicated or reordered; and the sentences produced so far followed by
\* the buffer have the non-whitespace characters of the streamed text and
\* separate two words wherever whitespace separates them in the stream:
\* two words are never joined.
C28_ChunkerRoundTrip ==
    /\ NonSpace(Spaced(chunker.output.complete) \o chunker.output.remainder)
          = NonSpace(chunker.input)
    /\ LET out == Spaced(chunker.sentences) \o chunker.buffer IN
       /\ NonSpace(out) = NonSpace(chunker.streamed)
       /\ Cuts(chunker.streamed) \subseteq Cuts(out)

\* C29: across any sequence of memory extractions over a growing message
\* log, the window handed to the extractor never starts before the last
\* already-extracted index and that index never decreases, so that each
\* user/assistant pair is extracted at most once.
C29_ExtractedOnce ==
    /\ mem.window.start >= mem.upto_before
    /\ mem.last_extracted_index >= mem.index_before

\* the calls among the first k whose outcome is one of outs
NumberOf(saves, k, outs) ==
    Cardinality({j \in 1 .. k : saves[j].out \in outs})

\* C30 as stated: the rebuild is invoked exactly once per N successful
\* save_extraction calls, on the N-th, 2N-th, ... call that returned
\* without an error and on no other, and a rebuild that raises does not
\* make save_extraction fail.
C30_RebuildEveryN ==
    \A k \in 1 .. Len(mem.saves) :
        LET s == mem.saves[k] IN
        /\ s.rebuild # "none" <=>
              /\ s.out \in {"saved", "empty"}
              /\ NumberOf(mem.saves, k, {"saved", "empty"})
                    % mem.community_rebuild_interval = 0
        /\ s.rebuild = "raised" => s.out = "saved"

\* C30, amended: the rebuild is invoked exactly once per N save_extraction
\* calls that saved an extraction with at least one entity, on the N-th,
\* 2N-th, ... of those calls and on no other (a call with an empty
\* extraction returns without saving and is not counted), and a rebuild
\* that raises does not make save_extraction fail.
C30_RebuildEveryNSaved ==
    \A k \in 1 .. Len(mem.saves) :
        LET s == mem.saves[k] IN
        /\ s.rebuild # "none" <=>
              /\ s.out = "saved"
              /\ NumberOf(mem.saves, k, {"saved"})
                    % mem.community_rebuild_interval = 0
        /\ s.rebuild = "raised" => s.out = "saved"

\* with N = 2: a rebuild raised on the second saving call, an empty
\* extraction and a failed save went by uncounted, and the fourth saving
\* call rebuilt again
C30_RebuiltTwice ==
    /\ mem.community_rebuild_interval = 2
    /\ Len(mem.saves) = 6
    /\ mem.saves[2].rebuild = "raised"
    /\ mem.saves[3].out = "empty"
    /\ mem.saves[4].out = "failed"
    /\ mem.saves[6].rebuild = "ok"
    /\ mem.extraction_count = 4

\* ---------------------------------------------------------------- C31
IdsOf(s) == [k \in 1 .. Len(s) |-> s[k].id]

Upto(a, b) == [k \in 1 .. (b - a + 1) |-> a + k - 1]

\* C31: while the state is Listening a captured chunk is handed to
\* send_audio if stt_connected is set and is appended to pending_audio
\* otherwise; when a handler sets stt_connected in Listening, the
\* send_audio calls made since it began are the drained pre-buffer followed
\* by the chunks captured after the drain, in that order, and
\* pending_audio is empty from then on.
C31_FlushBeforeLive ==
    [][/\ (aud.pc = "on" /\ aud.state = "listening"
              /\ aud'.captured = aud.captured + 1)
          => IF aud.stt_connected
             THEN /\ IdsOf(aud'.sent)
                        = Append(IdsOf(aud.sent), aud'.captured)
                  /\ aud'.pending = aud.pending
             ELSE /\ aud'.pending = Append(aud.pending, aud'.captured)
                  /\ aud'.sent = aud.sent
       /\ (aud.pc = "on" /\ ~aud.stt_connected /\ aud'.stt_connected
              /\ aud'.state = "listening")
          => IdsOf(aud.sent)
                 = aud.drained \o Upto(aud.since + 1, aud.captured)
       /\ (aud'.pc = "on" /\ aud'.stt_connected
              /\ aud'.state = "listening")
          => aud'.pending = <<>>]_vars

C31_FlushedBoth ==
    /\ aud.pc = "on"
    /\ aud.state = "listening"
    /\ aud.stt_connected
    /\ Len(aud.drained) >= 2
    /\ \E k \in 1 .. Len(aud.sent) :
          /\ k > Len(aud.drained)
          /\ aud.sent[k].id > aud.trig
          /\ \E m \in k + 1 .. Len(aud.sent) : aud.sent[m].id > aud.sent[k].id

\* ---------------------------------------------------------------- C37
\* C37: within one Listening episode the chunks handed to the STT session
\* are in capture order and each of them is handed over once: of two
\* send_audio calls of the episode the later one carries a chunk captured
\* later.
C37_SentInCaptureOrder ==
    aud.pc = "on" =>
        \A j, k \in 1 .. Len(aud.sent) :
            (j < k /\ aud.sent[j].live /\ aud.sent[k].live)
                => aud.sent[j].id < aud.sent[k].id

\* ---------------------------------------------------------------- C38
\* C38: every send_audio call is made while the state is Listening, by the
\* forwarding of a chunk and by the flush loop alike, also when the
\* utterance end or a later chunk is handled while the flush is suspended.
C38_SentOnlyListening ==
    aud.pc = "on" =>
        \A k \in 1 .. Len(aud.sent) : aud.sent[k].at = "listening"

\* the utterance ended while the flush loop was suspended, and the handler
\* has returned since
C38_FlushOutlivedListening ==
    /\ aud.pc = "on"
    /\ aud.state \in {"processing", "speaking", "active"}
    /\ aud.stt_connected
    /\ aud.h = "none"
    /\ Len(aud.sent) < Len(aud.drained)
    /\ aud.sent # <<>>

\* ---------------------------------------------------------------- C39
\* C39: whenever the state is Listening it later is Processing or Idle,
\* whatever the STT session delivers.
C39_ListeningEnds ==
    (aud.pc = "on" /\ aud.state = "listening")
        ~> (aud.pc = "on" /\ aud.state \in {"processing", "idle"})

C33_OnlyThisCallsBlocks ==
    [][cli.pc = "on" =>
          /\ cli'.call # cli.call => get_tool_use_blocks(cli') = 0
          /\ get_tool_use_blocks(cli') \in {0, cli'.call}]_vars

\* the second call failed after the first had stored its content
C33_FailedAfterStored ==
    /\ cli.pc = "on"
    /\ cli.had = 1
    /\ cli.call = 2
    /\ cli.gen = "none"
    /\ cli.op = "llm_event"
    /\ cli.raised
    /\ get_tool_use_blocks(cli) = 0

\* ---------------------------------------------------------------- C35
\* what an operation leaves behind, without the history
Effect(c) == [c EXCEPT !.op = "none", !.n = 0, !.raised = FALSE,
                       !.twice = FALSE]

\* C35: cancel, flush and kill raise nothing, and one of them called right
\* after itself changes nothing, whatever the clients were doing; after
\* finish or kill the player holds no process, and play_chunk, finish and
\* kill called on a player without a process change nothing and raise
\* nothing.
C35_Idempotent ==
    [][cli.pc = "on" =>
          /\ cli'.op \in {"cancel", "flush", "kill"} => ~cli'.raised
          /\ (cli'.twice /\ cli'.op \in {"cancel", "flush", "kill"})
                => Effect(cli') = Effect(cli)
          /\ cli'.op \in {"finish", "kill"} => cli'.process = "none"
          /\ (cli.process = "none"
                 /\ cli'.op \in {"play_chunk", "finish", "kill"})
                => (Effect(cli') = Effect(cli) /\ ~cli'.raised)]_vars

\* the TTS stream was flushed twice in a row while it was open and the
\* player killed before
C35_FlushedTwice ==
    /\ cli.pc = "on"
    /\ cli.twice
    /\ cli.op = "flush"
    /\ cli.tts_gen = "open"
    /\ cli.written > 0
    /\ cli.process = "none"

\* ---------------------------------------------------------------- C34
\* C34: the queue of an invocation never holds more than queue_maxsize
\* frames, and once a barge-in has hit the response the invocation is
\* speaking, no frame of it is put on the queue and none is handed to the
\* player.  (The order of the frames is that of asyncio.Queue.)
C34_NoFrameAfterBargeIn ==
    [][\A i \in PRs :
          /\ pr'[i].qlen <= queue_maxsize
          /\ (pr[i].barged /\ pr'[i].barged)
                => /\ pr'[i].qlen <= pr[i].qlen
                   /\ pr'[i].cons = "play" => pr[i].cons = "play"]_vars

\* ---------------------------------------------------------------- C36
\* C36: an invocation whose response was hit by a barge-in does nothing
\* more once the handler has moved the state out of Interrupted: a step of
\* it changes neither the state nor the context, schedules no timeout and
\* no background task, and neither writes to nor ends a player that a
\* later invocation started.
C36_StaleInvocationInert ==
    [][\A i \in PRs :
          (pr[i].barged /\ state # "interrupted" /\ pr'[i] # pr[i])
              => /\ state' = state
                 /\ ctx' = ctx
                 /\ timeout_tasks' = timeout_tasks
                 /\ timeout_pending' = timeout_pending
                 /\ background_tasks' = background_tasks
                 /\ (speaker # i /\ player_proc = "running")
                       => /\ player_proc' = player_proc
                          /\ pr'[i].cons = "play" => pr[i].cons = "play"]_vars

\* C40: whenever the state is Active exactly one _timeout task is asleep and
\* it was started when Active was last entered (or later); the timeout moves
\* the state from Active to Idle only through that task, whose sleep has
\* lasted the whole stay in Active; and Active is always left in the end,
\* for Idle by the timeout or for Listening by speech.
C40_ActiveTimesOut ==
    /\ [](state = "active" =>
            timeout_pending /\ timeout_tasks = 1 /\ timeout_fresh)
    /\ [][(state = "active" /\ state' = "idle") =>
            timeout_fresh /\ timeout_tasks = 1 /\ timeout_tasks' = 0]_vars
    /\ (state = "active") ~> (state \in {"idle", "listening"})

\* Active was entered a second time, the task of the first stay in Active
\* was replaced, and the task of the second stay has moved the state to Idle
C40_SecondStayTimedOut ==
    /\ state = "idle"
    /\ timeout_replaced
    /\ timeout_tasks = 0
    /\ vad_reset_by = "timeout"

====
